---------------------------- MODULE Spec2Model ----------------------------
(***************************************************************************)
(* Verification model of the Neuro runtime (Kiruse/NeuroLang):             *)
(*   - Concurrency::ReverseSemaphore   (SpecSem)                           *)
(*   - ManagedMemoryTable              (SpecTable)                         *)
(*   - the collector of NeuroGC.cpp    (SpecGC)                            *)
(* Every subsystem has its own variables; a specification of one subsystem *)
(* leaves the variables of the others at their initial values.             *)
(***************************************************************************)
EXTENDS Integers, Naturals, Sequences, FiniteSets, TLC

(***************************************************************************)
(* Bounds of the model.                                                    *)
(***************************************************************************)
\* number of client threads of the semaphore
NumThreads == 3
\* how many shared acquisitions one thread may hold at a time (recursion)
MaxRecursion == 1

\* rows of a table section and sections of a table page, scaled down from
\* the 100 rows and 10 sections the table is laid out for
g_sectsize == 2
g_pagesize == 2
\* number of addPointer calls of one run (values of uidsalt)
MaxSalt == 3
\* managed objects of one run and collector cycles that are counted
MaxObjects == 3
MaxCycles == 2
\* property slots an Object gets on top of the known properties, scaled
\* down from the 10 of genericCreateObject, and the known properties asked for
PropSlack == 2
MaxKnownProps == 2
\* identifier numbers and property values of one run
MaxId == 5
MaxValue == 2
\* calls on an Object handle of one run
MaxCalls == 3
\* threads that allocate, allocations of one run, the largest request,
\* segments of a chain, and the smallest segment, scaled down from the
\* 2048 bytes of createSegment
NumAllocators == 2
MaxAllocs == 3
MaxAllocSize == 2
MaxSegments == 3
MinSegmentSize == 3
\* threads that look identifiers up, distinct names, and lookups of a run
NumInterners == 2
MaxNames == 2
MaxLookups == 3
\* threads that call init and destroy, and their calls of one run
NumClients == 2
MaxLifeCalls == 4
\* cells of a ManagedMemoryOverhead, scaled down, the largest element size
\* and count of an allocation of the FakeGC, and its calls of one run
OverheadCells == 3
MaxElementSize == 2
MaxCount == 2
MaxFakeCalls == 4
\* threads that mark objects for a scan, and the requests of one run
NumProducers == 2
MaxElems == 3
\* threads that claim indexes of a gap range, the largest end of a range,
\* and the claim() calls of one run
NumClaimers == 3
MaxRangeEnd == 3
MaxClaims == 5

Threads == 1 .. NumThreads
NoThread == 0

(***************************************************************************)
(* ReverseSemaphore : state                                                *)
(***************************************************************************)
\* largest value of the 31 bit field numSharedUsers
MaxSharedUsers == 2147483647

VARIABLES
    numSharedUsers,        \* uint32 numSharedUsers : 31
    isExclusiveRequested,  \* uint32 isExclusiveRequested : 1 (same word)
    syncMutex,             \* owner of std::mutex syncMutex, NoThread if free
    exclusiveMutex,        \* owner of std::mutex exclusiveMutex
    pc,                    \* position of every thread inside the semaphore
    word,                  \* the bit-field word a thread has loaded
    sharedHeld,            \* shared acquisitions a thread has not released
    exclusiveHeld,         \* thread returned from lock()/tryLock()==true
    seenWriters            \* history: writers registered when a shared
                           \* request began and not yet unlocked

semVars == << numSharedUsers, isExclusiveRequested, syncMutex, exclusiveMutex,
              pc, word, sharedHeld, exclusiveHeld, seenWriters >>

VARIABLES
    rows,          \* firstPage.sections[s].rows[r] : (ptr, uid)
    numOccupied,   \* firstPage.sections[s].numOccupied
    uidsalt,       \* std::atomic<uint32> uidsalt
    cmpptr,        \* static cmpptr of addPointer
    crashed,       \* the process has dereferenced a null page
    issued,        \* history: handles returned by addPointer, by salt
    last           \* history: the last operation and its result

tblVars == << rows, numOccupied, uidsalt, cmpptr, crashed, issued, last >>

VARIABLES
    objects,       \* managed allocations made so far
    records,       \* GCGlobals::dataTable: header address of a handle
    trivial,       \* head->trivial of an allocation
    props,         \* the managed-object property value of an object
    roots,         \* GCGlobals::roots
    scans,         \* GCGlobals::LifeCycle::scans, the scan requests
    marked,        \* GCGlobals::LifeCycle::marked
    garbage,       \* head->garbage
    swept,         \* head->swept
    destroyCalls,  \* history: calls of the destroy delegate per allocation
    quietCycles,   \* history: iterations of gcMain since the last mutation
    cycle          \* position of gcMain inside its loop, the local marks,
                   \* and (history) the allocations made since gcScan and
                   \* those no root led to when an iteration ended

gcVars == << objects, records, trivial, props, roots, scans, marked, garbage,
             swept, destroyCalls, quietCycles, cycle >>

VARIABLES
    self,          \* the Object behind the handle: propCount and props
    newObj,        \* the Object the last recreateObject has constructed
    written,       \* history: the value last assigned to an identifier
    objLast,       \* history: the last call on the handle and its result
    grown,         \* history: getProperty has called recreateObject
    objUB,         \* history: a call has used memory outside the props
    calls,         \* history: number of calls made through the handle
    given          \* history: the slots of self the mutable getProperty
                   \* has returned for an identifier

objVars == << self, newObj, written, objLast, grown, objUB, calls, given >>

VARIABLES
    segs,          \* the chain of ManagedMemorySegments, by creation
    alloc,         \* position and locals of every thread in allocate_inner
    allocated,     \* history: the byte ranges allocate_inner has returned
    allocCrashed   \* a thread has dereferenced a null segment

allocVars == << segs, alloc, allocated, allocCrashed >>

VARIABLES
    root,          \* IdentifierRegistryGlobals::root
    nodes,         \* the IdentifierRegistryNodes published in the tree
    nextNumber,    \* IdentifierRegistryGlobals::nextNumber
    look,          \* position and locals of every thread in lookup
    interned       \* history: the name and the result of every lookup

identVars == << root, nodes, nextNumber, look, interned >>

VARIABLES
    initialized,       \* GCGlobals::initialized
    firstMemSegs,      \* firstTrivialMemSeg and firstNonTrivialMemSeg
    segmentsMade,      \* history: segments createSegment has returned
    scannerCount,      \* delegates in GCGlobals::scanners
    gcThreads,         \* threads that run gcMain and are not joined
    processTerminated, \* std::terminate has been called
    life,              \* position and locals of every client in init
    lifeLast,          \* history: the last call of every client, its result
    lifeCalls,         \* history: number of calls of init and destroy
    live               \* history: an init has returned NoError and no
                       \* destroy has returned NoError since

lifeVars == << initialized, firstMemSegs, segmentsMade, scannerCount,
               gcThreads, processTerminated, life, lifeLast, lifeCalls,
               live >>

VARIABLES
    mainBuffer,    \* FakeGC::mainBuffer, cell by cell; << >> before FakeGC()
    cursor,        \* FakeGC::cursor
    fakeRecords,   \* FakeGC::records : (addr, hash)
    shapes,        \* history: payload cells asked for, by record
    fakeLast,      \* history: the last call, its arguments and result
    fakeUB,        \* a call has had undefined behaviour
    fakeCalls      \* history: number of calls

fakeVars == << mainBuffer, cursor, fakeRecords, shapes, fakeLast, fakeUB,
               fakeCalls >>

VARIABLES
    vals,          \* two Values: tag, m_unsigned, and the union's bytes
    valLast,       \* history: the last operation, its target and its source
    valCrashed     \* a step has read or written through a wild address

valVars == << vals, valLast, valCrashed >>

VARIABLES
    scansFirst,    \* GCGlobals::LifeCycle::scans.first
    elemNext,      \* QueueElement::next of the elements made so far
    made,          \* the QueueElements that have been constructed
    enq,           \* position and locals of every thread in enqueue
    scanner,       \* position and locals of the collector in gcScan
    processed,     \* history: the batches an element has been part of
    purged,        \* history: the elements purge has deleted
    queueUB        \* a step has written into a deleted element

queueVars == << scansFirst, elemNext, made, enq, scanner, processed, purged,
                queueUB >>

VARIABLES
    rangeStart,    \* ManagedMemoryTableRange::start
    rangeEnd,      \* ManagedMemoryTableRange::end
    rangeOrigin,   \* history: start as the range was constructed, or npos
    claimer,       \* position and locals of every thread in claim()
    returned,      \* history: how often claim() has returned an index
    claimLast,     \* history: the last claim() a thread has completed
    claimCalls     \* claim() calls begun

rangeVars == << rangeStart, rangeEnd, rangeOrigin, claimer, returned,
                claimLast, claimCalls >>

\* what a step of one part of the runtime leaves alone
SemFrame ==
    UNCHANGED << tblVars, gcVars, objVars, allocVars, identVars,
                 lifeVars, fakeVars, valVars,
                 queueVars, rangeVars >>
TableFrame ==
    UNCHANGED << semVars, gcVars, objVars, allocVars, identVars,
                 lifeVars, fakeVars, valVars,
                 queueVars, rangeVars >>
GcFrame ==
    UNCHANGED << semVars, tblVars, objVars, allocVars, identVars,
                 lifeVars, fakeVars, valVars,
                 queueVars, rangeVars >>
ObjFrame ==
    UNCHANGED << semVars, tblVars, gcVars, allocVars, identVars,
                 lifeVars, fakeVars, valVars,
                 queueVars, rangeVars >>
AllocFrame ==
    UNCHANGED << semVars, tblVars, gcVars, objVars, identVars,
                 lifeVars, fakeVars, valVars,
                 queueVars, rangeVars >>
IdentFrame ==
    UNCHANGED << semVars, tblVars, gcVars, objVars, allocVars,
                 lifeVars, fakeVars, valVars,
                 queueVars, rangeVars >>
LifeFrame ==
    UNCHANGED << semVars, tblVars, gcVars, objVars, allocVars,
                 identVars, fakeVars, valVars,
                 queueVars, rangeVars >>
FakeFrame ==
    UNCHANGED << semVars, tblVars, gcVars, objVars, allocVars,
                 identVars, lifeVars, valVars,
                 queueVars, rangeVars >>
ValueFrame ==
    UNCHANGED << semVars, tblVars, gcVars, objVars, allocVars,
                 identVars, lifeVars, fakeVars, queueVars, rangeVars >>
QueueFrame ==
    UNCHANGED << semVars, tblVars, gcVars, objVars, allocVars,
                 identVars, lifeVars, fakeVars, valVars, rangeVars >>
RangeFrame ==
    UNCHANGED << semVars, tblVars, gcVars, objVars, allocVars,
                 identVars, lifeVars, fakeVars, valVars, queueVars >>

NoWord == [n |-> 0, x |-> FALSE]

\* 31 bit wrap-around of the counter
IncShared(n) == IF n = MaxSharedUsers THEN 0 ELSE n + 1
DecShared(n) == IF n = 0 THEN MaxSharedUsers ELSE n - 1

SemInit ==
    /\ numSharedUsers = 0
    /\ isExclusiveRequested = FALSE
    /\ syncMutex = NoThread
    /\ exclusiveMutex = NoThread
    /\ pc = [t \in Threads |-> "idle"]
    /\ word = [t \in Threads |-> NoWord]
    /\ sharedHeld = [t \in Threads |-> 0]
    /\ exclusiveHeld = [t \in Threads |-> FALSE]
    /\ seenWriters = [t \in Threads |-> {}]

hasSharedUsers == numSharedUsers > 0
hasExclusiveUsers == isExclusiveRequested /\ numSharedUsers = 0

\* pc values of a thread that is inside lock()
LockPcs == {"l51", "l52a", "l52b", "l53", "l54w", "l54r"}

\* a writer whose request is registered: queued in line 51 behind a writer
\* whose request is visible, past its own assignment of line 52, or holding
RegisteredWriter(w) ==
    \/ pc[w] = "l51" /\ exclusiveMutex # NoThread /\ isExclusiveRequested
    \/ pc[w] \in {"l53", "l54w", "l54r"}
    \/ exclusiveHeld[w]

RegisteredWriters == {w \in Threads : RegisteredWriter(w)}

\* syncNotif.notify_all(): every thread blocked in wait() becomes runnable
NotifyAll(p) ==
    [t \in Threads |-> IF p[t] = "ls24w" THEN "ls24r"
                       ELSE IF p[t] = "l54w" THEN "l54r" ELSE p[t]]

(***************************************************************************)
(* lockShared()                                                            *)
(***************************************************************************)
\* the call itself; the caller holds no exclusive access
LockSharedCall(t) ==
    /\ pc[t] = "idle"
    /\ ~exclusiveHeld[t]
    /\ sharedHeld[t] < MaxRecursion
    /\ pc' = [pc EXCEPT ![t] = "ls23"]
    /\ seenWriters' = [seenWriters EXCEPT ![t] = RegisteredWriters \ {t}]
    /\ UNCHANGED << numSharedUsers, isExclusiveRequested, syncMutex,
                    exclusiveMutex, word, sharedHeld, exclusiveHeld >>
    /\ SemFrame

\* lines 23-25: take syncMutex (first time or when woken), evaluate the wait
\* predicate; true: load the word for numSharedUsers++, false: wait()
LockSharedCheck(t) ==
    /\ pc[t] \in {"ls23", "ls24r"}
    /\ syncMutex = NoThread
    /\ IF ~isExclusiveRequested
       THEN /\ syncMutex' = t
            /\ word' = [word EXCEPT ![t] =
                          [n |-> numSharedUsers, x |-> isExclusiveRequested]]
            /\ pc' = [pc EXCEPT ![t] = "ls25"]
       ELSE /\ syncMutex' = NoThread
            /\ word' = word
            /\ pc' = [pc EXCEPT ![t] = "ls24w"]
    /\ UNCHANGED << numSharedUsers, isExclusiveRequested, exclusiveMutex,
                    sharedHeld, exclusiveHeld, seenWriters >>
    /\ SemFrame

\* line 25-26: store the incremented word, release syncMutex, return
LockSharedStore(t) ==
    /\ pc[t] = "ls25"
    /\ numSharedUsers' = IncShared(word[t].n)
    /\ isExclusiveRequested' = word[t].x
    /\ syncMutex' = NoThread
    /\ word' = [word EXCEPT ![t] = NoWord]
    /\ sharedHeld' = [sharedHeld EXCEPT ![t] = @ + 1]
    /\ pc' = [pc EXCEPT ![t] = "idle"]
    /\ UNCHANGED << exclusiveMutex, exclusiveHeld, seenWriters >>
    /\ SemFrame

(***************************************************************************)
(* unlockShared()                                                          *)
(***************************************************************************)
\* line 29-30: take syncMutex, load the word for numSharedUsers--
UnlockSharedLoad(t) ==
    /\ pc[t] = "idle"
    /\ sharedHeld[t] > 0
    /\ syncMutex = NoThread
    /\ syncMutex' = t
    /\ word' = [word EXCEPT ![t] =
                  [n |-> numSharedUsers, x |-> isExclusiveRequested]]
    /\ pc' = [pc EXCEPT ![t] = "us30"]
    /\ UNCHANGED << numSharedUsers, isExclusiveRequested, exclusiveMutex,
                    sharedHeld, exclusiveHeld, seenWriters >>
    /\ SemFrame

\* line 30-32: store the decremented word, notify_all, release syncMutex
UnlockSharedStore(t) ==
    /\ pc[t] = "us30"
    /\ numSharedUsers' = DecShared(word[t].n)
    /\ isExclusiveRequested' = word[t].x
    /\ syncMutex' = NoThread
    /\ word' = [word EXCEPT ![t] = NoWord]
    /\ sharedHeld' = [sharedHeld EXCEPT ![t] = @ - 1]
    /\ pc' = NotifyAll([pc EXCEPT ![t] = "idle"])
    /\ UNCHANGED << exclusiveMutex, exclusiveHeld, seenWriters >>
    /\ SemFrame

(***************************************************************************)
(* tryLockShared()                                                         *)
(***************************************************************************)
\* lines 35-42: try_lock fails, or a writer has requested: return false
TryLockSharedFail(t) ==
    /\ pc[t] = "idle"
    /\ ~exclusiveHeld[t]
    /\ sharedHeld[t] < MaxRecursion
    /\ syncMutex # NoThread \/ isExclusiveRequested
    /\ UNCHANGED semVars
    /\ SemFrame

\* lines 35-44: try_lock succeeds, no writer requested: load the word
TryLockSharedLoad(t) ==
    /\ pc[t] = "idle"
    /\ ~exclusiveHeld[t]
    /\ sharedHeld[t] < MaxRecursion
    /\ syncMutex = NoThread
    /\ ~isExclusiveRequested
    /\ syncMutex' = t
    /\ word' = [word EXCEPT ![t] =
                  [n |-> numSharedUsers, x |-> isExclusiveRequested]]
    /\ pc' = [pc EXCEPT ![t] = "tls44"]
    /\ seenWriters' = [seenWriters EXCEPT ![t] = RegisteredWriters \ {t}]
    /\ UNCHANGED << numSharedUsers, isExclusiveRequested, exclusiveMutex,
                    sharedHeld, exclusiveHeld >>
    /\ SemFrame

\* lines 44-46: store the incremented word, unlock, return true
TryLockSharedStore(t) ==
    /\ pc[t] = "tls44"
    /\ numSharedUsers' = IncShared(word[t].n)
    /\ isExclusiveRequested' = word[t].x
    /\ syncMutex' = NoThread
    /\ word' = [word EXCEPT ![t] = NoWord]
    /\ sharedHeld' = [sharedHeld EXCEPT ![t] = @ + 1]
    /\ pc' = [pc EXCEPT ![t] = "idle"]
    /\ UNCHANGED << exclusiveMutex, exclusiveHeld, seenWriters >>
    /\ SemFrame

(***************************************************************************)
(* lock()                                                                  *)
(***************************************************************************)
\* the call; a reader must release its shared access first (header, l. 7-8)
LockCall(t) ==
    /\ pc[t] = "idle"
    /\ ~exclusiveHeld[t]
    /\ sharedHeld[t] = 0
    /\ exclusiveMutex # t
    /\ pc' = [pc EXCEPT ![t] = "l51"]
    /\ UNCHANGED << numSharedUsers, isExclusiveRequested, syncMutex,
                    exclusiveMutex, word, sharedHeld, exclusiveHeld,
                    seenWriters >>
    /\ SemFrame

\* line 51: exclusiveMutex.lock()
LockAcquireExclusive(t) ==
    /\ pc[t] = "l51"
    /\ exclusiveMutex = NoThread
    /\ exclusiveMutex' = t
    /\ pc' = [pc EXCEPT ![t] = "l52a"]
    /\ UNCHANGED << numSharedUsers, isExclusiveRequested, syncMutex, word,
                    sharedHeld, exclusiveHeld, seenWriters >>
    /\ SemFrame

\* line 52, first half: isExclusiveRequested = true loads the word that it
\* shares with numSharedUsers; syncMutex is not held
LockRequestLoad(t) ==
    /\ pc[t] = "l52a"
    /\ word' = [word EXCEPT ![t] =
                  [n |-> numSharedUsers, x |-> isExclusiveRequested]]
    /\ pc' = [pc EXCEPT ![t] = "l52b"]
    /\ UNCHANGED << numSharedUsers, isExclusiveRequested, syncMutex,
                    exclusiveMutex, sharedHeld, exclusiveHeld, seenWriters >>
    /\ SemFrame

\* line 52, second half: the word is stored with the bit set
LockRequestStore(t) ==
    /\ pc[t] = "l52b"
    /\ numSharedUsers' = word[t].n
    /\ isExclusiveRequested' = TRUE
    /\ word' = [word EXCEPT ![t] = NoWord]
    /\ pc' = [pc EXCEPT ![t] = "l53"]
    /\ UNCHANGED << syncMutex, exclusiveMutex, sharedHeld, exclusiveHeld,
                    seenWriters >>
    /\ SemFrame

\* lines 53-55: take syncMutex, evaluate the wait predicate; true: return
\* (the unique_lock releases syncMutex), false: wait()
LockCheck(t) ==
    /\ pc[t] \in {"l53", "l54r"}
    /\ syncMutex = NoThread
    /\ IF numSharedUsers = 0
       THEN /\ exclusiveHeld' = [exclusiveHeld EXCEPT ![t] = TRUE]
            /\ pc' = [pc EXCEPT ![t] = "idle"]
       ELSE /\ exclusiveHeld' = exclusiveHeld
            /\ pc' = [pc EXCEPT ![t] = "l54w"]
    /\ UNCHANGED << numSharedUsers, isExclusiveRequested, syncMutex,
                    exclusiveMutex, word, sharedHeld, seenWriters >>
    /\ SemFrame

(***************************************************************************)
(* unlock()                                                                *)
(***************************************************************************)
\* lines 58-62, by the thread that holds exclusive access
Unlock(t) ==
    /\ pc[t] = "idle"
    /\ exclusiveHeld[t]
    /\ syncMutex = NoThread
    /\ isExclusiveRequested' = FALSE
    /\ exclusiveMutex' = NoThread
    /\ exclusiveHeld' = [exclusiveHeld EXCEPT ![t] = FALSE]
    /\ pc' = NotifyAll(pc)
    /\ seenWriters' = [r \in Threads |-> seenWriters[r] \ {t}]
    /\ UNCHANGED << numSharedUsers, syncMutex, word, sharedHeld >>
    /\ SemFrame

(***************************************************************************)
(* tryLock()                                                               *)
(***************************************************************************)
\* lines 67-69: syncMutex.try_lock() fails
TryLockFailSync(t) ==
    /\ pc[t] = "idle"
    /\ ~exclusiveHeld[t]
    /\ sharedHeld[t] = 0
    /\ exclusiveMutex # t
    /\ syncMutex # NoThread
    /\ UNCHANGED semVars
    /\ SemFrame

\* lines 72-75: exclusiveMutex.try_lock() fails
TryLockFailExclusive(t) ==
    /\ pc[t] = "idle"
    /\ ~exclusiveHeld[t]
    /\ sharedHeld[t] = 0
    /\ exclusiveMutex # t
    /\ syncMutex = NoThread
    /\ exclusiveMutex # NoThread
    /\ UNCHANGED semVars
    /\ SemFrame

\* lines 79-82: shared users are at work; syncMutex is unlocked, the
\* exclusiveMutex locked in line 72 is not
TryLockFailShared(t) ==
    /\ pc[t] = "idle"
    /\ ~exclusiveHeld[t]
    /\ sharedHeld[t] = 0
    /\ syncMutex = NoThread
    /\ exclusiveMutex = NoThread
    /\ numSharedUsers > 0
    /\ exclusiveMutex' = t
    /\ UNCHANGED << numSharedUsers, isExclusiveRequested, syncMutex, pc,
                    word, sharedHeld, exclusiveHeld, seenWriters >>
    /\ SemFrame

\* lines 84-86: success
TryLockSuccess(t) ==
    /\ pc[t] = "idle"
    /\ ~exclusiveHeld[t]
    /\ sharedHeld[t] = 0
    /\ syncMutex = NoThread
    /\ exclusiveMutex = NoThread
    /\ numSharedUsers = 0
    /\ exclusiveMutex' = t
    /\ isExclusiveRequested' = TRUE
    /\ exclusiveHeld' = [exclusiveHeld EXCEPT ![t] = TRUE]
    /\ UNCHANGED << numSharedUsers, syncMutex, pc, word, sharedHeld,
                    seenWriters >>
    /\ SemFrame

(***************************************************************************)
(* std::condition_variable::wait may wake up spuriously                    *)
(***************************************************************************)
SpuriousWakeup(t) ==
    /\ pc[t] \in {"ls24w", "l54w"}
    /\ pc' = [pc EXCEPT ![t] = IF pc[t] = "ls24w" THEN "ls24r" ELSE "l54r"]
    /\ UNCHANGED << numSharedUsers, isExclusiveRequested, syncMutex,
                    exclusiveMutex, word, sharedHeld, exclusiveHeld,
                    seenWriters >>
    /\ SemFrame

SemNext ==
    \E t \in Threads :
        \/ LockSharedCall(t)
        \/ LockSharedCheck(t)
        \/ LockSharedStore(t)
        \/ UnlockSharedLoad(t)
        \/ UnlockSharedStore(t)
        \/ TryLockSharedFail(t)
        \/ TryLockSharedLoad(t)
        \/ TryLockSharedStore(t)
        \/ LockCall(t)
        \/ LockAcquireExclusive(t)
        \/ LockRequestLoad(t)
        \/ LockRequestStore(t)
        \/ LockCheck(t)
        \/ Unlock(t)
        \/ TryLockFailSync(t)
        \/ TryLockFailExclusive(t)
        \/ TryLockFailShared(t)
        \/ TryLockSuccess(t)
        \/ SpuriousWakeup(t)


(***************************************************************************)
(* ManagedMemoryTable : state                                              *)
(***************************************************************************)
\* typedef uint32 hashT: a hash is the set of its bits that are 1
HashBits == 32
\* static constexpr uint32 npos = -1
npos == -1
nullptr == 0
\* sizeof(ManagedMemoryOverhead), the distance from a header to its payload
SizeofOverhead == 48
\* header addresses the callers register
Addrs == {64, 128}

RECURSIVE Pow2(_)
Pow2(i) == IF i = 0 THEN 1 ELSE 2 * Pow2(i - 1)

\* calculateHash(NumericType value) == static_cast<hashT>(value), for the
\* values below 2^31 of the model
calculateHash(value) ==
    {i \in 0 .. HashBits - 2 : (value \div Pow2(i)) % 2 = 1}

\* bitwiseImplication(lhs, rhs) == rhs | ~(lhs ^ rhs)
bitwiseImplication(lhs, rhs) ==
    rhs \cup ((0 .. HashBits - 1) \ ((lhs \ rhs) \cup (rhs \ lhs)))

combineHashOrdered(lhs, rhs) == bitwiseImplication(lhs, rhs)

\* rows of the first page, section s row r at index s * g_sectsize + r
RowIndexes == 0 .. g_pagesize * g_sectsize - 1
EmptyRow == [ptr |-> nullptr, uid |-> {}]
\* ManagedMemoryPointerBase() : tableIndex(npos), rowuid(0)
NullPointer == [tableIndex |-> npos, rowuid |-> {}]


TableInit ==
    /\ rows = [i \in RowIndexes |-> EmptyRow]
    /\ numOccupied = [s \in 0 .. g_pagesize - 1 |-> 0]
    /\ uidsalt = 0
    /\ cmpptr = nullptr
    /\ crashed = FALSE
    /\ issued = << >>
    /\ last = [op |-> "none"]

(***************************************************************************)
(* ManagedMemoryTable : private methods                                    *)
(***************************************************************************)
\* findSectionForInsert(page, newAddr), lines 201-218: the first section
\* whose counter is below g_sectsize; the counter stays incremented
RECURSIVE FindSectionInPage(_, _)
FindSectionInPage(occ, sectionIndex) ==
    IF sectionIndex >= g_pagesize THEN npos
    ELSE IF occ[sectionIndex] >= g_sectsize
         THEN FindSectionInPage(occ, sectionIndex + 1)
         ELSE sectionIndex

\* get_internal, lines 220-240: the row of the first page a table index
\* denotes; firstPage.nextPage is null, so a larger index finds no page
get_internal(index) ==
    IF index = npos \/ index > g_pagesize * g_sectsize THEN npos
    ELSE index

\* the loop of addPointer, lines 47-60, over the rows of one section: the
\* compare_exchange_strong of line 52 stores the value it found in cmpptr
\* when it fails
RECURSIVE ClaimRow(_, _, _, _, _)
ClaimRow(rws, section, cmp, addr, rowindex) ==
    IF rowindex >= g_sectsize
    THEN [found |-> FALSE, rowindex |-> npos, cmp |-> cmp]
    ELSE LET cur == rws[section * g_sectsize + rowindex].ptr
         IN  IF cur = cmp
             THEN [found |-> TRUE, rowindex |-> rowindex, cmp |-> cmp]
             ELSE ClaimRow(rws, section, cur, addr, rowindex + 1)

(***************************************************************************)
(* ManagedMemoryTable : public methods                                     *)
(***************************************************************************)
\* void* ManagedMemoryTable::get(ptr), lines 104-116
TableGet(rws, h) ==
    IF get_internal(h.tableIndex) = npos THEN nullptr
    ELSE rws[get_internal(h.tableIndex)].ptr + SizeofOverhead

\* ManagedMemoryPointerBase::getHeadPointer, ManagedMemoryPointer.cpp 29-33
getHeadPointer(rws, h) ==
    IF TableGet(rws, h) = nullptr THEN nullptr
    ELSE TableGet(rws, h) - SizeofOverhead

\* ManagedMemoryPointerBase::get(index), ManagedMemoryPointer.cpp 23-27,
\* of an allocation whose elements are elementSize bytes wide
PointerGet(rws, h, index, elementSize) ==
    IF getHeadPointer(rws, h) = nullptr THEN nullptr
    ELSE getHeadPointer(rws, h) + SizeofOverhead + elementSize * index

\* addPointer(addr), lines 27-63
AddPointer(addr) ==
    /\ ~crashed
    /\ LET sectionIndex == FindSectionInPage(numOccupied, 0)
       IN  IF sectionIndex = npos
           THEN \* lines 159-161: page = page->nextPage is null and is
                \* dereferenced by findSectionForInsert(page, addr)
                /\ crashed' = TRUE
                /\ last' = [op |-> "crash"]
                /\ UNCHANGED << rows, numOccupied, uidsalt, cmpptr, issued >>
           ELSE LET uid == combineHashOrdered(calculateHash(addr),
                                              calculateHash(uidsalt))
                    claim == ClaimRow(rows, sectionIndex, cmpptr, addr, 0)
                    result == IF claim.found
                              THEN [tableIndex |-> claim.rowindex,
                                    rowuid |-> uid]
                              ELSE NullPointer
                    at == sectionIndex * g_sectsize + claim.rowindex
                IN  /\ uidsalt < MaxSalt
                    /\ numOccupied' = [numOccupied EXCEPT
                                          ![sectionIndex] = @ + 1]
                    /\ uidsalt' = uidsalt + 1
                    /\ cmpptr' = claim.cmp
                    /\ rows' = IF claim.found
                               THEN [rows EXCEPT
                                       ![at] = [ptr |-> addr, uid |-> uid]]
                               ELSE rows
                    /\ issued' = Append(issued,
                                   [h |-> result, addr |-> addr,
                                    row |-> IF claim.found THEN at ELSE npos,
                                    state |-> "live", replaced |-> FALSE])
                    /\ last' = [op |-> "add", h |-> result, addr |-> addr,
                                ok |-> claim.found]
                    /\ crashed' = crashed
    /\ TableFrame

\* ManagedMemoryPointerBase::operator==, ManagedMemoryPointer.hpp line 63
PointerEquals(lhs, rhs) == lhs.tableIndex = rhs.tableIndex

\* the handles a caller can pass: every handle addPointer has returned
Handles == {issued[k].h : k \in DOMAIN issued}

\* replacePointer(ptr, newAddr), lines 65-79
ReplacePointer(h, newAddr) ==
    /\ ~crashed
    /\ LET at == get_internal(h.tableIndex)
           ok == at # npos /\ rows[at].uid = h.rowuid
       IN  /\ rows' = IF ok THEN [rows EXCEPT ![at].ptr = newAddr] ELSE rows
           /\ issued' = [k \in DOMAIN issued |->
                           IF ok /\ issued[k].h = h /\ issued[k].state = "live"
                           THEN [issued[k] EXCEPT !.addr = newAddr,
                                                  !.replaced = TRUE]
                           ELSE issued[k]]
           /\ last' = [op |-> "replace", h |-> h, addr |-> newAddr,
                       ok |-> ok]
    /\ UNCHANGED << numOccupied, uidsalt, cmpptr, crashed >>
    /\ TableFrame

\* removePointer without the comparison of line 92
RemovePointerAnyUid(h) ==
    /\ ~crashed
    /\ LET at == get_internal(h.tableIndex)
           ok == at # npos
       IN  /\ rows' = IF ok THEN [rows EXCEPT ![at] = EmptyRow] ELSE rows
           /\ numOccupied' =
                IF ok THEN [numOccupied EXCEPT
                              ![at \div g_sectsize] = (@ + 255) % 256]
                ELSE numOccupied
           /\ issued' = [k \in DOMAIN issued |->
                           IF ok /\ issued[k].h = h /\ issued[k].state = "live"
                           THEN [issued[k] EXCEPT !.state = "removed"]
                           ELSE issued[k]]
           /\ last' = [op |-> "remove", h |-> h, addr |-> nullptr,
                       ok |-> ok]
    /\ UNCHANGED << uidsalt, cmpptr, crashed >>
    /\ TableFrame

\* removePointer(ptr), lines 81-102; the counter is a uint8
RemovePointer(h) ==
    /\ ~crashed
    /\ LET at == get_internal(h.tableIndex)
           ok == at # npos /\ rows[at].uid = h.rowuid
       IN  /\ rows' = IF ok THEN [rows EXCEPT ![at] = EmptyRow] ELSE rows
           /\ numOccupied' =
                IF ok THEN [numOccupied EXCEPT
                              ![at \div g_sectsize] = (@ + 255) % 256]
                ELSE numOccupied
           /\ issued' = [k \in DOMAIN issued |->
                           IF ok /\ issued[k].h = h /\ issued[k].state = "live"
                           THEN [issued[k] EXCEPT !.state = "removed"]
                           ELSE issued[k]]
           /\ last' = [op |-> "remove", h |-> h, addr |-> nullptr,
                       ok |-> ok]
    /\ UNCHANGED << uidsalt, cmpptr, crashed >>
    /\ TableFrame

\* handles no addPointer has returned: bit 31 is set in every uid that
\* combineHashOrdered yields here, so the uid 1 is never issued; one such
\* handle denotes a row of the first page and one an index past the page
ForgedUid == {0}
ForgedHandles ==
    {[tableIndex |-> i, rowuid |-> ForgedUid] :
        i \in {0, g_pagesize * g_sectsize + 1}}

TableNext ==
    \/ \E addr \in Addrs : AddPointer(addr)
    \/ \E h \in Handles \cup ForgedHandles, newAddr \in Addrs :
          ReplacePointer(h, newAddr)
    \/ \E h \in Handles \cup ForgedHandles : RemovePointer(h)

(***************************************************************************)
(* Garbage collector : state                                               *)
(***************************************************************************)
ObjectIds == 1 .. MaxObjects
NoObject == 0
\* header address of the allocation of object o
HeadAddress(o) == 64 * o
\* the allocations with an odd id are trivial ones (allocateTrivial), the
\* others carry a copy and a destroy delegate (allocateNonTrivial)
IsTrivial(o) == o % 2 = 1


GcInit ==
    /\ objects = {}
    /\ records = [o \in ObjectIds |-> nullptr]
    /\ trivial = [o \in ObjectIds |-> TRUE]
    /\ props = [o \in ObjectIds |-> NoObject]
    /\ roots = {}
    /\ scans = {}
    /\ marked = {}
    /\ garbage = [o \in ObjectIds |-> FALSE]
    /\ swept = [o \in ObjectIds |-> FALSE]
    /\ destroyCalls = [o \in ObjectIds |-> 0]
    /\ quietCycles = 0
    /\ cycle = [phase |-> "idle", marks |-> 0, during |-> {},
                survived |-> {}]

\* ManagedMemoryTable::get of the handle of object o, lines 104-116: the
\* address of the record plus the size of the header
GcTableGet(o) == records[o] + SizeofOverhead

\* a getHeadPointer that answers null for the buffers that are not null
GcHeadPointerInverted(o) ==
    IF GcTableGet(o) # nullptr THEN nullptr
    ELSE GcTableGet(o) - SizeofOverhead

\* ManagedMemoryPointerBase::getHeadPointer, ManagedMemoryPointer.cpp 29-33
GcHeadPointer(o) ==
    IF GcTableGet(o) = nullptr THEN nullptr
    ELSE GcTableGet(o) - SizeofOverhead

\* ManagedMemoryPointerBase::get(), ManagedMemoryPointer.cpp 23-27
GcResolve(o) ==
    IF GcHeadPointer(o) = nullptr THEN nullptr
    ELSE GcHeadPointer(o) + SizeofOverhead

(***************************************************************************)
(* Garbage collector : mutators                                            *)
(***************************************************************************)
\* a managed allocation with a record in the data table; ids are handed
\* out in order
Allocate(o, isTrivial) ==
    /\ o \notin objects
    /\ \A q \in ObjectIds : q < o => q \in objects
    /\ objects' = objects \cup {o}
    /\ records' = [records EXCEPT ![o] = HeadAddress(o)]
    /\ trivial' = [trivial EXCEPT ![o] = isTrivial]
    /\ quietCycles' = 0
    /\ cycle' = IF cycle.phase = "scanned"
                THEN [cycle EXCEPT !.during = @ \cup {o}]
                ELSE cycle
    /\ UNCHANGED << props, roots, scans, marked, garbage, swept,
                    destroyCalls >>
    /\ GcFrame

\* Object::root(), lines 706-709
Root(o) ==
    /\ o \in objects /\ o \notin roots
    /\ roots' = roots \cup {o}
    /\ quietCycles' = 0
    /\ UNCHANGED << objects, records, trivial, props, scans, marked,
                    garbage, swept, destroyCalls, cycle >>
    /\ GcFrame

\* Object::unroot(), lines 711-714
Unroot(o) ==
    /\ o \in roots
    /\ roots' = roots \ {o}
    /\ quietCycles' = 0
    /\ UNCHANGED << objects, records, trivial, props, scans, marked,
                    garbage, swept, destroyCalls, cycle >>
    /\ GcFrame

\* a property of object o is set to the managed object v, or cleared
SetProperty(o, v) ==
    /\ o \in objects
    /\ v \in objects \cup {NoObject}
    /\ props[o] # v
    /\ props' = [props EXCEPT ![o] = v]
    /\ quietCycles' = 0
    /\ UNCHANGED << objects, records, trivial, roots, scans, marked,
                    garbage, swept, destroyCalls, cycle >>
    /\ GcFrame

\* markForScan(pointer), lines 382-384
markForScan(o) ==
    /\ o \in objects /\ o \notin scans
    /\ scans' = scans \cup {o}
    /\ UNCHANGED << objects, records, trivial, props, roots, marked,
                    garbage, swept, destroyCalls, quietCycles, cycle >>
    /\ GcFrame

(***************************************************************************)
(* Garbage collector : life cycle                                          *)
(***************************************************************************)
\* the objects gcScanObject takes off the scan set: the property values of
\* the roots and of every object the trace visits, lines 541-562
RECURSIVE Traced(_, _)
Traced(visited, found) ==
    LET others == {props[v] : v \in visited} \ {NoObject}
    IN  IF others \subseteq found /\ others \subseteq visited
        THEN found
        ELSE Traced(visited \cup others, found \cup others)

\* gcScanObject(scans), lines 525-572: what is left of the scan set
gcScanObject(scanSet) ==
    IF scanSet = {} THEN {}
    ELSE scanSet \ Traced(roots, {})

\* gcScan(), lines 495-523, for the two outcomes of the time comparisons of
\* lines 487-493: the scan set that is handed to the scanners is built from
\* the local queue, which Queue::extract leaves empty
gcScanSet(scanShortTerm, scanLongTerm) ==
    IF scanShortTerm \/ scanLongTerm THEN {}
    ELSE IF scans # {} THEN gcScanObject({})
    ELSE {}

\* the scan requests after gcScan(): extract() purges them, line 515
gcScanQueue(scanShortTerm, scanLongTerm) ==
    IF scanShortTerm \/ scanLongTerm THEN scans
    ELSE {}

\* marks += gcScan(), line 476 of gcMain(): the scanners have run and
\* gcScanObject, lines 564-571, has flagged and appended what was left of
\* the set it was given; the mutators run on before line 477
gcScan ==
    /\ cycle.phase = "idle"
    /\ quietCycles < MaxCycles
    /\ \E scanShortTerm, scanLongTerm \in BOOLEAN :
         \E left \in {gcScanSet(scanShortTerm, scanLongTerm)} :
             /\ scans' = gcScanQueue(scanShortTerm, scanLongTerm)
             /\ garbage' = [o \in ObjectIds |-> garbage[o] \/ o \in left]
             /\ marked' = marked \cup left
             /\ cycle' = [phase |-> "scanned", marks |-> Cardinality(left),
                          during |-> {}, survived |-> cycle.survived]
    /\ UNCHANGED << objects, records, trivial, props, roots, swept,
                    destroyCalls, quietCycles >>
    /\ GcFrame

\* a sweep that takes every allocation of the table no root leads to,
\* instead of the marked buffer
gcMainSweepsTable ==
    /\ cycle.phase = "scanned"
    /\ \E nowMarked \in {objects \ (roots \cup Traced(roots, {}))} :
          /\ destroyCalls' =
                 [o \in ObjectIds |->
                     IF o \in nowMarked /\ ~trivial[o]
                     THEN destroyCalls[o] + 1
                     ELSE destroyCalls[o]]
          /\ swept' = [o \in ObjectIds |-> swept[o] \/ o \in nowMarked]
          /\ marked' = {}
    /\ cycle' = [cycle EXCEPT
                    !.phase = "idle", !.marks = 0,
                    !.survived = @ \cup
                        (objects \ (roots \cup Traced(roots, {})))]
    /\ quietCycles' = quietCycles + 1
    /\ UNCHANGED << objects, records, trivial, props, roots, scans,
                    garbage >>
    /\ GcFrame

\* the rest of one iteration of the loop of gcMain(), lines 477-480, with
\* gcSweep(), lines 579-601; gcCompact(), lines 608-699, moves nothing
gcMain ==
    /\ cycle.phase = "scanned"
    /\ IF cycle.marks > 0
       THEN /\ destroyCalls' =
                 [o \in ObjectIds |->
                     IF o \in marked /\ ~trivial[o]
                     THEN destroyCalls[o] + 1
                     ELSE destroyCalls[o]]
            /\ swept' = [o \in ObjectIds |-> swept[o] \/ o \in marked]
            /\ marked' = {}
       ELSE UNCHANGED << destroyCalls, swept, marked >>
    /\ cycle' = [cycle EXCEPT
                    !.phase = "idle", !.marks = 0,
                    !.survived = @ \cup
                        (objects \ (roots \cup Traced(roots, {})))]
    /\ quietCycles' = quietCycles + 1
    /\ UNCHANGED << objects, records, trivial, props, roots, scans,
                    garbage >>
    /\ GcFrame

GcNext ==
    \/ \E o \in ObjectIds : Allocate(o, IsTrivial(o))
    \/ \E o \in ObjectIds : Root(o)
    \/ \E o \in ObjectIds : Unroot(o)
    \/ \E o \in ObjectIds, v \in ObjectIds \cup {NoObject} : SetProperty(o, v)
    \/ \E o \in ObjectIds : markForScan(o)
    \/ gcScan
    \/ gcMain

(***************************************************************************)
(* Object : the property map of NeuroObject.cpp.  A handle is resolved to  *)
(* the Object it was created for; the allocation delegate of               *)
(* genericCreateObject and genericRecreateObject hands out memory whose    *)
(* content is not specified.                                               *)
(***************************************************************************)
\* neuroValueType::Undefined == 0, the Value of a slot after the memset
Undefined == 0
\* Property::first of a slot after the memset: no identifier has claimed it
FreeSlot == 0
\* a nonzero word of memory that is no identifier and no value of the run
Junk == 255
\* written[id] of an identifier the handle was never asked for
Absent == -1
Uint32Bits == 32

PropIds == 0 .. MaxId
PropValues == 1 .. MaxValue

\* a uint32 as the set of its one bits
Uint32(number) == {i \in 0 .. Uint32Bits - 2 : (number \div Pow2(i)) % 2 = 1}

\* left rotation; bits % 32 = 0 leaves the number as it is
cycleBits(number, bits) ==
    IF bits = 0
    THEN Uint32(number)
    ELSE {(i + (bits % Uint32Bits)) % Uint32Bits : i \in Uint32(number)}

RECURSIVE BitsValue(_)
BitsValue(b) ==
    IF b = {} THEN 0
    ELSE LET i == CHOOSE x \in b : TRUE IN Pow2(i) + BitsValue(b \ {i})

\* props[index] of an index that is not inside the property array
OutOfProps == -1

\* the index a rotated identifier selects, if it lies inside the array
PropIndex(b, propCount) ==
    IF (\A i \in b : i < Uint32Bits - 1) /\ BitsValue(b) < propCount
    THEN BitsValue(b)
    ELSE OutOfProps

\* capacities an Object of a run can have, and the rotated positions of
\* every identifier number in them
MaxCapacity == MaxKnownProps + 2 * PropSlack + 2
ProbeIndex ==
    [number \in PropIds \cup {Junk}, propCount \in 1 .. MaxCapacity,
     i \in 0 .. 7 |->
        PropIndex(cycleBits(number, propCount * i), propCount)]

\* Object(self, propCount): the memset clears every slot
NewObject(propCount) ==
    [propCount |-> propCount,
     first |-> [i \in 0 .. propCount - 1 |-> FreeSlot],
     second |-> [i \in 0 .. propCount - 1 |-> Undefined]]

\* memory of the allocation delegate under the third constructor, which
\* does not clear it: zero filled or holding other words
RawObject(propCount, mem) ==
    [propCount |-> propCount,
     first |-> [i \in 0 .. propCount - 1 |-> mem],
     second |-> [i \in 0 .. propCount - 1 |->
                    IF mem = FreeSlot THEN Undefined ELSE Junk]]

NoObj == [propCount |-> 0, first |-> << >>, second |-> << >>]

\* what getProperty returns a reference to
SlotRef(index) == [kind |-> "slot", index |-> index]
WildRef == [kind |-> "wild", index |-> OutOfProps]
NoRef == [kind |-> "none", index |-> OutOfProps]

\* contents a word outside the property array can have when a call for
\* the identifier number reads it
Foreign(number) == {FreeSlot, Junk, number}

\* the loop over the 8 rotated positions
RECURSIVE HashProbe(_, _, _, _)
HashProbe(o, number, i, foreign) ==
    IF i = 8 THEN NoRef
    ELSE LET index == ProbeIndex[number, o.propCount, i]
         IN  IF index = OutOfProps
             THEN IF foreign = number
                  THEN WildRef
                  ELSE HashProbe(o, number, i + 1, foreign)
             ELSE IF o.first[index] = number
                  THEN SlotRef(index)
                  ELSE HashProbe(o, number, i + 1, foreign)

\* the linear loop of the mutable getProperty; cmp is the expected value
\* of compare_exchange_strong, which a failed exchange overwrites
RECURSIVE ClaimScan(_, _, _, _, _, _, _)
ClaimScan(o, number, start, index, cmp, available, foreign) ==
    IF index = start
    THEN [o |-> o, ref |-> available]
    ELSE LET inside == index < o.propCount
             cur == IF inside THEN o.first[index] ELSE foreign
             here == IF inside THEN SlotRef(index) ELSE WildRef
             next == (index + 1) % o.propCount
         IN  IF cur = number
             THEN [o |-> IF available.kind = "slot"
                         THEN [o EXCEPT !.first[available.index] = 0]
                         ELSE o,
                   ref |-> here]
             ELSE IF available # NoRef
                  THEN ClaimScan(o, number, start, next, cmp, available,
                                 foreign)
                  ELSE IF cur = cmp
                       THEN ClaimScan(IF inside
                                      THEN [o EXCEPT !.first[index] = number]
                                      ELSE o,
                                      number, start, next, cmp, here, foreign)
                       ELSE ClaimScan(o, number, start, next, cur, NoRef,
                                      foreign)

\* Value& Object::getProperty(Identifier): the Object after the call and
\* the slot referred to; NoRef when the call goes on to recreateObject
getProperty(o, number, foreign) ==
    LET found(probe) ==
            IF probe # NoRef
            THEN [o |-> o, ref |-> probe]
            ELSE ClaimScan(o, number, number % o.propCount,
                           (number % o.propCount) + 1, 0, NoRef, foreign)
    IN  found(HashProbe(o, number, 0, foreign))

\* the linear loop of the immutable getProperty
RECURSIVE FindScan(_, _, _, _, _)
FindScan(o, number, start, index, foreign) ==
    IF index = start THEN NoRef
    ELSE LET inside == index < o.propCount
             cur == IF inside THEN o.first[index] ELSE foreign
         IN  IF cur = number
             THEN IF inside THEN SlotRef(index) ELSE WildRef
             ELSE FindScan(o, number, start, (index + 1) % o.propCount,
                           foreign)

\* const Value& Object::getProperty(Identifier) const; NoRef stands for
\* the reference to Value::undefined
getPropertyConst(o, number, foreign) ==
    LET found(probe) ==
            IF probe # NoRef
            THEN probe
            ELSE FindScan(o, number, number % o.propCount,
                          (number % o.propCount) + 1, foreign)
    IN  found(HashProbe(o, number, 0, foreign))

\* the Value a reference is read as
Deref(o, ref) ==
    IF ref.kind = "slot" THEN o.second[ref.index]
    ELSE IF ref.kind = "wild" THEN Junk
    ELSE Undefined

length(o) == Cardinality({i \in 0 .. o.propCount - 1 : o.first[i] # 0})
capacity(o) == o.propCount

\* PropertyIterator::operator++: the next index that holds an identifier,
\* or capacity()
RECURSIVE NextOccupied(_, _)
NextOccupied(o, index) ==
    IF index + 1 >= o.propCount \/ o.first[index + 1] # 0
    THEN index + 1
    ELSE NextOccupied(o, index + 1)

\* the slots one PropertyIterator::operator++ reads, NeuroObject.hpp lines
\* 69-72: props[++index] is read before index is compared with capacity()
IncrementReads(o, index) == index + 1 .. NextOccupied(o, index)

\* the positions a loop from begin() to end() dereferences, starting with
\* the iterator at index: begin() is the iterator at index 0
RECURSIVE Visited(_, _)
Visited(o, index) ==
    IF index >= capacity(o) THEN {}
    ELSE {index} \cup Visited(o, NextOccupied(o, index))

Max(a, b) == IF a >= b THEN a ELSE b

\* the loop of copyRehashProps from begin(), which is index 0, to end()
RECURSIVE CopyLoop(_, _, _, _, _, _)
CopyLoop(o, other, index, added, count, foreign) ==
    IF index >= other.propCount \/ added >= count
    THEN [o |-> o, ok |-> TRUE]
    ELSE LET insert(r) ==
                 IF r.ref.kind # "slot"
                 THEN [o |-> r.o, ok |-> FALSE]
                 ELSE CopyLoop([r.o EXCEPT !.second[r.ref.index] =
                                              other.second[index]],
                               other, NextOccupied(other, index),
                               added + 1, count, foreign)
         IN  insert(getProperty(o, other.first[index], foreign))

copyRehashProps(o, other, foreign) ==
    CopyLoop(o, other, 0, 0, Max(length(other), o.propCount), foreign)

\* genericRecreateObject: same is TRUE when the Object itself is returned
genericRecreateObject(object, knownPropsCount, mem, foreign) ==
    LET totalPropsCount == knownPropsCount + PropSlack
        result(copy) == [same |-> FALSE, o |-> copy.o, ok |-> copy.ok]
    IN  IF totalPropsCount = object.propCount
        THEN [same |-> TRUE, o |-> object, ok |-> TRUE]
        ELSE result(copyRehashProps(RawObject(totalPropsCount, mem),
                                    object, foreign))

ObjInit ==
    /\ self = NoObj
    /\ newObj = NoObj
    /\ written = [id \in PropIds |-> Absent]
    /\ objLast = [op |-> "create", id |-> 0, value |-> Undefined]
    /\ grown = FALSE
    /\ objUB = FALSE
    /\ calls = 0
    /\ given = [id \in PropIds |-> {}]

\* genericCreateObject(alloc, knownPropsCount): the handle of the run
ObjCreate(knownPropsCount) ==
    /\ self = NoObj
    /\ self' = NewObject(knownPropsCount + PropSlack)
    /\ UNCHANGED << newObj, written, objLast, grown, objUB, calls, given >>
    /\ ObjFrame

\* the mutable getProperty through the handle, with the Objects and the
\* reference it leaves: in self, or in the Object recreateObject returned
MutableGet(id, mem, foreign) ==
    LET inNew(r, g, r2) ==
            [self |-> r.o, newObj |-> r2.o, in |-> "new", ref |-> r2.ref,
             ub |-> ~g.ok \/ r2.ref.kind # "slot"]
        recreated(r, g) == inNew(r, g, getProperty(g.o, id, foreign))
        got(r) ==
            IF r.ref # NoRef
            THEN [self |-> r.o, newObj |-> newObj, in |-> "self",
                  ref |-> r.ref, ub |-> r.ref.kind = "wild"]
            ELSE recreated(r, genericRecreateObject(r.o, r.o.propCount + 1,
                                                    mem, foreign))
    IN  got(getProperty(self, id, foreign))

\* obj->getProperty(id) = v
ObjSetProperty(id, v) ==
    /\ self # NoObj
    /\ ~objUB
    /\ calls < MaxCalls
    /\ calls' = calls + 1
    /\ \E mem \in {FreeSlot, Junk}, foreign \in Foreign(id) :
        \E m \in {MutableGet(id, mem, foreign)} :
            /\ self' = IF m.in = "self" /\ m.ref.kind = "slot"
                       THEN [m.self EXCEPT !.second[m.ref.index] = v]
                       ELSE m.self
            /\ newObj' = IF m.in = "new" /\ m.ref.kind = "slot"
                         THEN [m.newObj EXCEPT !.second[m.ref.index] = v]
                         ELSE m.newObj
            /\ grown' = (grown \/ m.in = "new")
            /\ objUB' = m.ub
            /\ given' = IF m.in = "self" /\ m.ref.kind = "slot"
                        THEN [given EXCEPT ![id] = @ \cup {m.ref.index}]
                        ELSE given
    /\ written' = [written EXCEPT ![id] = v]
    /\ objLast' = [op |-> "set", id |-> id, value |-> v]
    /\ ObjFrame

\* a read through the mutable getProperty: obj->getProperty(id)
ObjGetProperty(id) ==
    /\ self # NoObj
    /\ ~objUB
    /\ calls < MaxCalls
    /\ calls' = calls + 1
    /\ \E mem \in {FreeSlot, Junk}, foreign \in Foreign(id) :
        \E m \in {MutableGet(id, mem, foreign)} :
            /\ self' = m.self
            /\ newObj' = m.newObj
            /\ grown' = (grown \/ m.in = "new")
            /\ objUB' = m.ub
            /\ given' = IF m.in = "self" /\ m.ref.kind = "slot"
                        THEN [given EXCEPT ![id] = @ \cup {m.ref.index}]
                        ELSE given
            /\ objLast' = [op |-> "get", id |-> id,
                           value |-> IF m.in = "self"
                                     THEN Deref(m.self, m.ref)
                                     ELSE Deref(m.newObj, m.ref)]
    /\ written' = [written EXCEPT ![id] =
                      IF @ = Absent THEN Undefined ELSE @]
    /\ ObjFrame

\* a read through the immutable getProperty
ObjGetPropertyConst(id) ==
    /\ self # NoObj
    /\ ~objUB
    /\ calls < MaxCalls
    /\ calls' = calls + 1
    /\ \E foreign \in Foreign(id) :
        \E ref \in {getPropertyConst(self, id, foreign)} :
            /\ objLast' = [op |-> "getconst", id |-> id,
                           value |-> Deref(self, ref)]
            /\ objUB' = (ref.kind = "wild")
    /\ UNCHANGED << self, newObj, written, grown, given >>
    /\ ObjFrame

\* Object::recreateObject(obj, knownPropsCount) called by the client
ObjRecreate(knownPropsCount) ==
    /\ self # NoObj
    /\ ~objUB
    /\ calls < MaxCalls
    /\ calls' = calls + 1
    /\ \E mem \in {FreeSlot, Junk}, foreign \in {FreeSlot, Junk} :
        \E g \in {genericRecreateObject(self, knownPropsCount, mem,
                                         foreign)} :
            /\ newObj' = g.o
            /\ objUB' = ~g.ok
            /\ objLast' = [op |-> IF g.same THEN "recreate same"
                                  ELSE "recreate",
                           id |-> 0, value |-> knownPropsCount]
    /\ UNCHANGED << self, written, grown, given >>
    /\ ObjFrame

ObjNext ==
    \/ \E k \in 0 .. MaxKnownProps : ObjCreate(k)
    \/ \E id \in PropIds, v \in PropValues : ObjSetProperty(id, v)
    \/ \E id \in PropIds : ObjGetProperty(id)
    \/ \E id \in PropIds : ObjGetPropertyConst(id)
    \/ \E k \in 0 .. MaxKnownProps + 1 : ObjRecreate(k)

(***************************************************************************)
(* Allocation : allocate_inner on a chain of ManagedMemorySegments         *)
(***************************************************************************)
Allocators == 1 .. NumAllocators
\* sizeof(ManagedMemorySegment), in the unit of the request sizes
SegmentOverhead == 1
\* distance of the addresses malloc returns for two segments
SegmentStride == 10
NoSegment == 0

SegmentBase(k) == k * SegmentStride

\* createSegment(minSize); compacting is a member it leaves as malloc
\* returned it
createSegment(k, minSize, compacting) ==
    [next |-> NoSegment,
     allocating |-> FALSE,
     compacting |-> compacting,
     ptr |-> SegmentBase(k) + SegmentOverhead,
     size |-> Max(SegmentOverhead + minSize, MinSegmentSize)]

IdleAlloc == [pc |-> "idle", size |-> 0, segment |-> NoSegment,
              addr |-> nullptr, chain |-> NoSegment, compare |-> NoSegment]

AllocInit ==
    /\ segs = << >>
    /\ alloc = [t \in Allocators |-> IdleAlloc]
    /\ allocated = {}
    /\ allocCrashed = FALSE

InFlight == Cardinality({t \in Allocators : alloc[t].pc # "idle"})

\* the chain of init(): firstNonTrivialMemSeg = createSegment(512)
AllocFirstSegment ==
    /\ segs = << >>
    /\ \E c \in BOOLEAN : segs' = << createSegment(1, 0, c) >>
    /\ UNCHANGED << alloc, allocated, allocCrashed >>
    /\ AllocFrame

\* allocate_inner(chain, size) is entered
AllocCall(t, size) ==
    /\ ~allocCrashed
    /\ segs # << >>
    /\ alloc[t].pc = "idle"
    /\ Cardinality(allocated) + InFlight < MaxAllocs
    /\ alloc' = [alloc EXCEPT ![t] = [IdleAlloc EXCEPT !.pc = "loop",
                                         !.size = size, !.segment = 1]]
    /\ UNCHANGED << segs, allocated, allocCrashed >>
    /\ AllocFrame

\* while (segment && !addr), and the constructor of the temporary Lock
AllocLock(t) ==
    /\ ~allocCrashed
    /\ alloc[t].pc = "loop"
    /\ alloc[t].segment # NoSegment
    /\ ~segs[alloc[t].segment].allocating
    /\ segs' = [segs EXCEPT ![alloc[t].segment].allocating = TRUE]
    /\ alloc' = [alloc EXCEPT ![t].pc = "locked"]
    /\ UNCHANGED << allocated, allocCrashed >>
    /\ AllocFrame

\* the destructor of the temporary Lock, at the end of the same statement
AllocUnlock(t) ==
    /\ ~allocCrashed
    /\ alloc[t].pc = "locked"
    /\ segs' = [segs EXCEPT ![alloc[t].segment].allocating = FALSE]
    /\ alloc' = [alloc EXCEPT ![t].pc = "check"]
    /\ UNCHANGED << allocated, allocCrashed >>
    /\ AllocFrame

\* the test of compacting and of the room left in the segment
AllocCheck(t) ==
    /\ ~allocCrashed
    /\ alloc[t].pc = "check"
    /\ LET k == alloc[t].segment
           full == segs[k].ptr + alloc[t].size > SegmentBase(k) + segs[k].size
       IN  alloc' = IF segs[k].compacting \/ full
                    THEN [alloc EXCEPT ![t].segment = segs[k].next,
                                       ![t].pc = "loop"]
                    ELSE [alloc EXCEPT ![t].pc = "take"]
    /\ UNCHANGED << segs, allocated, allocCrashed >>
    /\ AllocFrame

\* addr = segment->ptr
AllocTake(t) ==
    /\ ~allocCrashed
    /\ alloc[t].pc = "take"
    /\ alloc' = [alloc EXCEPT ![t].addr = segs[alloc[t].segment].ptr,
                              ![t].pc = "bump"]
    /\ UNCHANGED << segs, allocated, allocCrashed >>
    /\ AllocFrame

\* segment->ptr += size, an unsynchronized update: the sum is formed from
\* the value read for addr or from the value the member has now; the loop
\* ends and addr is returned
AllocBump(t) ==
    /\ ~allocCrashed
    /\ alloc[t].pc = "bump"
    /\ \E old \in {alloc[t].addr, segs[alloc[t].segment].ptr} :
        segs' = [segs EXCEPT ![alloc[t].segment].ptr = old + alloc[t].size]
    /\ allocated' = allocated \cup
           {[addr |-> alloc[t].addr, size |-> alloc[t].size, by |-> t]}
    /\ alloc' = [alloc EXCEPT ![t] = IdleAlloc]
    /\ UNCHANGED allocCrashed
    /\ AllocFrame

\* if (!segment): createSegment(size), the allocation in the new segment
AllocCreate(t) ==
    /\ ~allocCrashed
    /\ alloc[t].pc = "loop"
    /\ alloc[t].segment = NoSegment
    /\ Len(segs) < MaxSegments
    /\ \E c \in BOOLEAN :
        LET k == Len(segs) + 1
            segment == createSegment(k, alloc[t].size, c)
        IN  /\ segs' = Append(segs, [segment EXCEPT
                                        !.ptr = @ + alloc[t].size])
            /\ alloc' = [alloc EXCEPT ![t].segment = k,
                                      ![t].addr = segment.ptr,
                                      ![t].chain = 1,
                                      ![t].compare = NoSegment,
                                      ![t].pc = "append"]
    /\ UNCHANGED << allocated, allocCrashed >>
    /\ AllocFrame

\* one iteration of appendSegment: a failed compare_exchange_strong
\* overwrites compare with the next member it found
appendSegment(t) ==
    /\ ~allocCrashed
    /\ alloc[t].pc = "append"
    /\ LET chain == alloc[t].chain
       IN  IF chain = NoSegment
           THEN /\ allocCrashed' = TRUE
                /\ UNCHANGED << segs, alloc, allocated >>
           ELSE IF segs[chain].next = alloc[t].compare
                THEN /\ segs' = [segs EXCEPT ![chain].next = alloc[t].segment]
                     /\ allocated' = allocated \cup
                            {[addr |-> alloc[t].addr, size |-> alloc[t].size,
                              by |-> t]}
                     /\ alloc' = [alloc EXCEPT ![t] = IdleAlloc]
                     /\ UNCHANGED allocCrashed
                ELSE /\ alloc' = [alloc EXCEPT
                                     ![t].compare = segs[chain].next,
                                     ![t].chain = segs[chain].next]
                     /\ UNCHANGED << segs, allocated, allocCrashed >>
    /\ AllocFrame

AllocNext ==
    \/ AllocFirstSegment
    \/ \E t \in Allocators :
        \/ \E size \in 1 .. MaxAllocSize : AllocCall(t, size)
        \/ AllocLock(t)
        \/ AllocUnlock(t)
        \/ AllocCheck(t)
        \/ AllocTake(t)
        \/ AllocBump(t)
        \/ AllocCreate(t)
        \/ appendSegment(t)

(***************************************************************************)
(* Identifier : the registry of NeuroIdentifier.cpp                        *)
(***************************************************************************)
Interners == 1 .. NumInterners
\* names, ordered as String::compareTo orders them
Names == 1 .. MaxNames
NoNode == 0
\* result of a lookup that left through Assert::shouldNotEnter, which throws
Thrown == -1

IdleLookup == [pc |-> "idle", name |-> 0, cmp |-> NoNode, curr |-> NoNode,
               number |-> 0]

IdentInit ==
    /\ root = NoNode
    /\ nodes = << >>
    /\ nextNumber = 0
    /\ look = [t \in Interners |-> IdleLookup]
    /\ interned = {}

\* int8 side = name.compareTo(curr->name)
compareTo(name, other) ==
    IF name < other THEN -1 ELSE IF name > other THEN 1 ELSE 0

\* curr->left or curr->right, by the side
Child(curr, side) == IF side = -1 THEN nodes[curr].left ELSE nodes[curr].right

\* the tree with elem published as the child of curr on a side
Publish(curr, side, name, number) ==
    LET elem == Len(nodes) + 1
        node == [name |-> name, number |-> number, left |-> NoNode,
                 right |-> NoNode]
    IN  Append(IF side = -1
               THEN [nodes EXCEPT ![curr].left = elem]
               ELSE [nodes EXCEPT ![curr].right = elem],
               node)

\* return Identifier(number), or the exception
Return(t, id) ==
    /\ interned' = interned \cup {[name |-> look[t].name, id |-> id]}
    /\ look' = [look EXCEPT ![t] = IdleLookup]

LookupsBegun ==
    Cardinality(interned) +
        Cardinality({t \in Interners : look[t].pc # "idle"})

\* lookup(name) is entered: cmp = nullptr, the test root.load() == nullptr
LookupCall(t, name) ==
    /\ look[t].pc = "idle"
    /\ LookupsBegun < MaxLookups
    /\ look' = [look EXCEPT ![t] =
                   [IdleLookup EXCEPT !.name = name,
                       !.pc = IF root = NoNode THEN "rootfetch" ELSE "load"]]
    /\ UNCHANGED << root, nodes, nextNumber, interned >>
    /\ IdentFrame

\* a fetch that reads nextNumber and does not increment it
LookupRootFetchNoIncrement(t) ==
    /\ look[t].pc = "rootfetch"
    /\ look' = [look EXCEPT ![t].number = nextNumber, ![t].pc = "rootcas"]
    /\ UNCHANGED << root, nodes, nextNumber, interned >>
    /\ IdentFrame

\* elem->number = nextNumber.fetch_add(1) of line 112
LookupRootFetch(t) ==
    /\ look[t].pc = "rootfetch"
    /\ nextNumber' = nextNumber + 1
    /\ look' = [look EXCEPT ![t].number = nextNumber, ![t].pc = "rootcas"]
    /\ UNCHANGED << root, nodes, interned >>
    /\ IdentFrame

\* root.compare_exchange_strong(cmp, elem) of line 113
LookupRootCas(t) ==
    /\ look[t].pc = "rootcas"
    /\ IF root = look[t].cmp
       THEN /\ nodes' = Append(nodes, [name |-> look[t].name,
                                       number |-> look[t].number,
                                       left |-> NoNode, right |-> NoNode])
            /\ root' = Len(nodes) + 1
            /\ Return(t, look[t].number)
       ELSE /\ look' = [look EXCEPT ![t].cmp = root, ![t].pc = "load"]
            /\ UNCHANGED << root, nodes, interned >>
    /\ UNCHANGED nextNumber
    /\ IdentFrame

\* curr = root.load() of line 120
LookupLoad(t) ==
    /\ look[t].pc = "load"
    /\ look' = [look EXCEPT ![t].curr = root, ![t].pc = "search"]
    /\ UNCHANGED << root, nodes, nextNumber, interned >>
    /\ IdentFrame

\* one iteration of the first loop, which does not insert
LookupSearch(t) ==
    /\ look[t].pc = "search"
    /\ LET curr == look[t].curr
           side == compareTo(look[t].name, nodes[curr].name)
       IN  IF side = 0
           THEN Return(t, nodes[curr].number)
           ELSE /\ look' = IF Child(curr, side) = NoNode
                           THEN [look EXCEPT ![t].pc = "fetch"]
                           ELSE [look EXCEPT ![t].curr = Child(curr, side)]
                /\ UNCHANGED interned
    /\ UNCHANGED << root, nodes, nextNumber >>
    /\ IdentFrame

\* elem->number = nextNumber.fetch_add(1) of line 152
LookupFetch(t) ==
    /\ look[t].pc = "fetch"
    /\ nextNumber' = nextNumber + 1
    /\ look' = [look EXCEPT ![t].number = nextNumber, ![t].pc = "insert"]
    /\ UNCHANGED << root, nodes, interned >>
    /\ IdentFrame

\* one iteration of the second loop; a failed compare_exchange_strong
\* overwrites cmp.  When curr is null the loop ends and lookup leaves
\* through Assert::shouldNotEnter.
LookupInsert(t) ==
    /\ look[t].pc = "insert"
    /\ LET curr == look[t].curr
           side == compareTo(look[t].name, nodes[curr].name)
       IN  IF curr = NoNode
           THEN /\ Return(t, Thrown)
                /\ UNCHANGED nodes
           ELSE IF side = 0
                THEN /\ Return(t, nodes[curr].number)
                     /\ UNCHANGED nodes
                ELSE IF Child(curr, side) = look[t].cmp
                     THEN /\ nodes' = Publish(curr, side, look[t].name,
                                              look[t].number)
                          /\ Return(t, look[t].number)
                     ELSE /\ look' = [look EXCEPT
                                         ![t].cmp = Child(curr, side),
                                         ![t].curr = Child(curr, side)]
                          /\ UNCHANGED << nodes, interned >>
    /\ UNCHANGED << root, nextNumber >>
    /\ IdentFrame

IdentNext ==
    \E t \in Interners :
        \/ \E name \in Names : LookupCall(t, name)
        \/ LookupRootFetch(t)
        \/ LookupRootCas(t)
        \/ LookupLoad(t)
        \/ LookupSearch(t)
        \/ LookupFetch(t)
        \/ LookupInsert(t)

(***************************************************************************)
(* Life cycle : init and destroy of NeuroGC.cpp                            *)
(***************************************************************************)
Clients == 1 .. NumClients

IdleLife == [pc |-> "idle", wasLive |-> FALSE]
NoCall == [op |-> "none", result |-> "none", wasLive |-> FALSE]

LifeInit ==
    /\ initialized = FALSE
    /\ firstMemSegs = << NoSegment, NoSegment >>
    /\ segmentsMade = 0
    /\ scannerCount = 0
    /\ gcThreads = 0
    /\ processTerminated = FALSE
    /\ life = [t \in Clients |-> IdleLife]
    /\ lifeLast = [t \in Clients |-> NoCall]
    /\ lifeCalls = 0
    /\ live = FALSE

\* init() is entered: the scoped_lock of line 395 is a temporary and is
\* released at once; if (initialized) return InvalidStateError
init(t) ==
    /\ ~processTerminated
    /\ life[t].pc = "idle"
    /\ lifeCalls < MaxLifeCalls
    /\ lifeCalls' = lifeCalls + 1
    /\ IF initialized
       THEN /\ lifeLast' = [lifeLast EXCEPT ![t] =
                               [op |-> "init",
                                result |-> "InvalidStateError",
                                wasLive |-> live]]
            /\ UNCHANGED life
       ELSE /\ life' = [life EXCEPT ![t] =
                           [pc |-> "segments", wasLive |-> live]]
            /\ UNCHANGED lifeLast
    /\ UNCHANGED << initialized, firstMemSegs, segmentsMade, scannerCount,
                    gcThreads, processTerminated, live >>
    /\ LifeFrame

\* firstTrivialMemSeg = createSegment(2048);
\* firstNonTrivialMemSeg = createSegment(512)
initSegments(t) ==
    /\ ~processTerminated
    /\ life[t].pc = "segments"
    /\ firstMemSegs' = << segmentsMade + 1, segmentsMade + 2 >>
    /\ segmentsMade' = segmentsMade + 2
    /\ life' = [life EXCEPT ![t].pc = "scanner"]
    /\ UNCHANGED << initialized, scannerCount, gcThreads, processTerminated,
                    lifeLast, lifeCalls, live >>
    /\ LifeFrame

\* scanners.add(ScannerDelegate::FunctionDelegate<gcScanObject>())
initScanner(t) ==
    /\ ~processTerminated
    /\ life[t].pc = "scanner"
    /\ scannerCount' = scannerCount + 1
    /\ life' = [life EXCEPT ![t].pc = "thread"]
    /\ UNCHANGED << initialized, firstMemSegs, segmentsMade, gcThreads,
                    processTerminated, lifeLast, lifeCalls, live >>
    /\ LifeFrame

\* backgroundThread = std::thread(gcMain); return NoError.  Assigning to a
\* std::thread that is joinable calls std::terminate.
initThread(t) ==
    /\ ~processTerminated
    /\ life[t].pc = "thread"
    /\ gcThreads' = gcThreads + 1
    /\ life' = [life EXCEPT ![t] = IdleLife]
    /\ IF gcThreads > 0
       THEN /\ processTerminated' = TRUE
            /\ UNCHANGED << lifeLast, live >>
       ELSE /\ lifeLast' = [lifeLast EXCEPT ![t] =
                               [op |-> "init", result |-> "NoError",
                                wasLive |-> life[t].wasLive]]
            /\ live' = TRUE
            /\ UNCHANGED processTerminated
    /\ UNCHANGED << initialized, firstMemSegs, segmentsMade, scannerCount,
                    lifeCalls >>
    /\ LifeFrame

\* destroy(): if (!initialized) return InvalidStateError; else the thread
\* is joined, the segments are freed and initialized is cleared
destroy(t) ==
    /\ ~processTerminated
    /\ life[t].pc = "idle"
    /\ lifeCalls < MaxLifeCalls
    /\ lifeCalls' = lifeCalls + 1
    /\ IF ~initialized
       THEN /\ lifeLast' = [lifeLast EXCEPT ![t] =
                               [op |-> "destroy",
                                result |-> "InvalidStateError",
                                wasLive |-> live]]
            /\ UNCHANGED << initialized, firstMemSegs, gcThreads, live >>
       ELSE /\ gcThreads' = 0
            /\ firstMemSegs' = << NoSegment, NoSegment >>
            /\ initialized' = FALSE
            /\ live' = FALSE
            /\ lifeLast' = [lifeLast EXCEPT ![t] =
                               [op |-> "destroy", result |-> "NoError",
                                wasLive |-> live]]
    /\ UNCHANGED << segmentsMade, scannerCount, processTerminated, life >>
    /\ LifeFrame

LifeNext ==
    \E t \in Clients :
        \/ init(t)
        \/ initSegments(t)
        \/ initScanner(t)
        \/ initThread(t)
        \/ destroy(t)

(***************************************************************************)
(* FakeGC of TestNeuroObject.cpp                                           *)
(***************************************************************************)
\* FakeGC(): new uint8[...] is not initialized; fill is what it holds.
\* The buffer has room for every call of a run: the cursor advances by at
\* most MaxElementSize * MaxCount a call, and the last region needs its
\* header and its payload
FakeGCNew(fill) ==
    /\ mainBuffer = << >>
    /\ mainBuffer' =
           [i \in 0 .. (MaxFakeCalls + 1) * MaxElementSize * MaxCount
                          + OverheadCells - 1 |-> fill]
    /\ UNCHANGED << cursor, fakeRecords, shapes, fakeLast, fakeUB,
                    fakeCalls >>
    /\ FakeFrame

\* new (buffer) ManagedMemoryOverhead(size, count): elementSize and count
\* are the first two cells of a header, isTrivial is the third
PlaceOverhead(mem, buffer, size, count) ==
    [mem EXCEPT ![buffer] = size, ![buffer + 1] = count]

\* FakeGC::resolve of the handle of record k: hash is calculateHash of the
\* buffer address the record was made with
FakeResolve(recs, h) ==
    IF recs[h.index + 1].hash # h.hash THEN nullptr
    ELSE recs[h.index + 1].addr + OverheadCells

FakeHandle(k) == [index |-> k - 1, hash |-> fakeRecords[k].hash]

\* FakeGC::allocateTrivial(size, count)
FakeAllocateTrivial(size, count) ==
    /\ mainBuffer # << >>
    /\ ~fakeUB
    /\ fakeCalls < MaxFakeCalls
    /\ fakeCalls' = fakeCalls + 1
    /\ mainBuffer' = [PlaceOverhead(mainBuffer, cursor, size, count)
                         EXCEPT ![cursor + 2] = 1]
    /\ fakeRecords' = Append(fakeRecords, [addr |-> cursor, hash |-> cursor])
    /\ shapes' = Append(shapes, size * count)
    /\ cursor' = cursor + size * count
    /\ fakeLast' = [op |-> "allocate", k |-> Len(fakeRecords) + 1]
    /\ UNCHANGED fakeUB
    /\ FakeFrame

\* the client writes v, v + 1, ... to the payload through the handle
FakeWrite(k, v) ==
    /\ ~fakeUB
    /\ fakeCalls < MaxFakeCalls
    /\ fakeCalls' = fakeCalls + 1
    /\ \E p \in {FakeResolve(fakeRecords, FakeHandle(k))} :
          mainBuffer' = [i \in DOMAIN mainBuffer |->
                            IF i >= p /\ i < p + shapes[k]
                            THEN v + (i - p) ELSE mainBuffer[i]]
    /\ fakeLast' = [op |-> "write", k |-> k, v |-> v]
    /\ UNCHANGED << cursor, fakeRecords, shapes, fakeUB >>
    /\ FakeFrame

\* FakeGC::reallocate(ptr, size, count, autocopy), lines 99-135
FakeReallocate(k, size, count, autocopy) ==
    /\ ~fakeUB
    /\ fakeCalls < MaxFakeCalls
    /\ fakeCalls' = fakeCalls + 1
    /\ LET oldBuffer == fakeRecords[k].addr
           newBuffer == cursor
           bytes == size * count
           \* lines 114-115: newHead is constructed, its isTrivial is read
           \* from oldHead
           placed(m) == [m EXCEPT ![newBuffer + 2] = m[oldBuffer + 2]]
           \* line 118: memset(newBuffer, 0, size * count)
           cleared(m) == [i \in DOMAIN m |->
                             IF i >= newBuffer /\ i < newBuffer + bytes
                             THEN 0 ELSE m[i]]
           \* line 120: the length is computed from oldHead after the memset
           length0(m) == IF m[oldBuffer] * m[oldBuffer + 1] < bytes
                         THEN m[oldBuffer] * m[oldBuffer + 1] ELSE bytes
           copied(m, n) == [i \in DOMAIN m |->
                               IF i >= newBuffer /\ i < newBuffer + n
                               THEN m[oldBuffer + (i - newBuffer)]
                               ELSE m[i]]
           done(m, isTrivial) ==
               /\ mainBuffer' = IF isTrivial /\ autocopy
                                THEN copied(cleared(m), length0(cleared(m)))
                                ELSE IF isTrivial THEN cleared(m) ELSE m
               \* lines 123-129 call the delegates of a header that holds
               \* none; memcpy of overlapping regions
               /\ fakeUB' = (\/ ~isTrivial
                             \/ /\ autocopy
                                /\ oldBuffer + length0(cleared(m)) > newBuffer)
           old == FakeResolve(fakeRecords, FakeHandle(k))
       IN  /\ done(placed(PlaceOverhead(mainBuffer, newBuffer, size, count)),
                   placed(PlaceOverhead(mainBuffer, newBuffer, size,
                                        count))[oldBuffer + 2] # 0)
           /\ fakeRecords' = [fakeRecords EXCEPT ![k].addr = newBuffer]
           /\ fakeLast' = [op |-> "reallocate", k |-> k,
                           autocopy |-> autocopy, bytes |-> bytes,
                           oldBytes |-> shapes[k], oldAddr |-> old,
                           oldPayload |-> [i \in 0 .. shapes[k] - 1 |->
                                              mainBuffer[old + i]],
                           h |-> FakeHandle(k)]
    /\ cursor' = cursor + size * count
    /\ shapes' = [shapes EXCEPT ![k] = size * count]
    /\ FakeFrame

FakeInit ==
    /\ mainBuffer = << >>
    /\ cursor = 0
    /\ fakeRecords = << >>
    /\ shapes = << >>
    /\ fakeLast = [op |-> "none"]
    /\ fakeUB = FALSE
    /\ fakeCalls = 0

FakeNext ==
    \/ \E fill \in {0, Junk} : FakeGCNew(fill)
    \/ \E size \in 1 .. MaxElementSize, count \in 1 .. MaxCount :
          FakeAllocateTrivial(size, count)
    \/ \E k \in DOMAIN fakeRecords, v \in PropValues : FakeWrite(k, v)
    \/ \E k \in DOMAIN fakeRecords, size \in 1 .. MaxElementSize,
          count \in 1 .. MaxCount, autocopy \in BOOLEAN :
          FakeReallocate(k, size, count, autocopy)

(***************************************************************************)
(* Value (NeuroValue.hpp): a tag, a signedness flag and a union            *)
(***************************************************************************)
\* The union of a Value holds m_longValue, m_doubleValue and m_ptrValue in
\* its first eight bytes (word) and m_objectValue over all of it: Pointer
\* has a virtual destructor, so its first eight bytes are its vptr and
\* tableIndex and rowuid (handle) lie behind the bytes the scalars use.
ValueTags == { "NVT_Undefined", "NVT_Bool", "NVT_Byte", "NVT_Short",
               "NVT_Integer", "NVT_Long", "NVT_Float", "NVT_Double",
               "NVT_NativeObject", "NVT_Object" }

\* the address of the vtable of ManagedMemoryPointer<Object>
VTable == 4096

\* a double that no float represents: 2^24 + 1
WideDouble == 16777217

\* the tableIndex/rowuid pairs of two managed objects
ValueHandles == { 1, 2 }

ValueSlots == { 1, 2 }

\* the bit width of an integer tag
TagBits(tag) ==
    CASE tag = "NVT_Byte" -> 8
      [] tag = "NVT_Short" -> 16
      [] tag = "NVT_Integer" -> 32
      [] OTHER -> 64

\* (uintN)x and (intN)x; every word of the model lies within an int32, so
\* that the conversions to 32 and 64 bits only change a negative number
ToUnsigned(x, bits) ==
    IF bits >= 32
    THEN IF x >= 0 THEN x ELSE x + 2 ^ bits
    ELSE x % (2 ^ bits)
ToSigned(x, bits) ==
    IF bits >= 32
    THEN x
    ELSE LET u == x % (2 ^ bits)
         IN  IF u >= 2 ^ (bits - 1) THEN u - 2 ^ bits ELSE u

\* static_cast<float>(double) on the integers the model stores: exact up
\* to 2^24, rounded to the 24 bit mantissa (round to even) above it
ToFloat(d) ==
    IF d > 16777216 /\ d < 33554432
    THEN IF d % 4 = 3 THEN d + 1 ELSE d - (d % 2)
    ELSE d

\* the arguments the constructors of a tag accept
TypedInputs(tag, uns) ==
    CASE tag = "NVT_Undefined" -> { 0 }
      [] tag = "NVT_Bool" -> { 0, 1 }
      [] tag = "NVT_Byte" -> IF uns THEN { 0, 255 } ELSE { -1, 0 }
      [] tag \in { "NVT_Short", "NVT_Integer", "NVT_Long" } ->
            IF uns THEN { 0, 255 } ELSE { -1, 255 }
      [] tag = "NVT_Float" -> { -1, 255 }
      [] tag = "NVT_Double" -> { -1, WideDouble }
      [] tag = "NVT_NativeObject" -> { 0, 255 }
      [] tag = "NVT_Object" -> ValueHandles

\* the contents of members no constructor has written
Indeterminate ==
    { [ u |-> FALSE, w |-> 0, h |-> 1 ], [ u |-> TRUE, w |-> -1, h |-> 2 ] }

\* what a read through a wild address can return
WildReads == { 0, WideDouble }

\* Value(...) of lines 57-73 on storage that holds junk
ConstructValue(tag, uns, x, junk) ==
    CASE tag = "NVT_Undefined" ->
            [ m_type |-> tag, m_unsigned |-> junk.u,
              word |-> junk.w, handle |-> junk.h ]
      [] tag \in { "NVT_Bool", "NVT_Float", "NVT_Double",
                   "NVT_NativeObject" } ->
            [ m_type |-> tag, m_unsigned |-> junk.u,
              word |-> x, handle |-> junk.h ]
      [] tag = "NVT_Object" ->
            [ m_type |-> tag, m_unsigned |-> junk.u,
              word |-> VTable, handle |-> x ]
      [] tag = "NVT_Long" /\ uns ->
            \* *reinterpret_cast<uint64*>(m_longValue) = value
            [ m_type |-> tag, m_unsigned |-> TRUE,
              word |-> junk.w, handle |-> junk.h ]
      [] OTHER ->
            [ m_type |-> tag, m_unsigned |-> uns,
              word |-> x, handle |-> junk.h ]

\* Value::operator=(const Value&); read is what getULong() finds at the
\* address it takes m_longValue for
CopyValue(target, other, read) ==
    LET head == [ target EXCEPT !.m_type = other.m_type,
                                !.m_unsigned = other.m_unsigned ]
    IN  CASE other.m_type = "NVT_Undefined" -> head
          [] other.m_type = "NVT_Bool" ->
                [ head EXCEPT !.word = IF other.word # 0 THEN 1 ELSE 0 ]
          [] other.m_type \in { "NVT_Byte", "NVT_Short", "NVT_Integer" } ->
                [ head EXCEPT !.word =
                    IF other.m_unsigned
                    THEN ToUnsigned(other.word, TagBits(other.m_type))
                    ELSE ToSigned(other.word, TagBits(other.m_type)) ]
          [] other.m_type = "NVT_Long" ->
                [ head EXCEPT !.word =
                    IF other.m_unsigned THEN read ELSE other.word ]
          [] other.m_type = "NVT_Float" ->
                [ head EXCEPT !.word = ToFloat(other.word) ]
          [] other.m_type = "NVT_Double" ->
                [ head EXCEPT !.word = other.word ]
          [] other.m_type = "NVT_NativeObject" ->
                \* m_objectValue = other.getManagedObject()
                [ head EXCEPT !.handle = other.handle ]
          [] other.m_type = "NVT_Object" ->
                \* m_ptrValue = other.getNativeObject()
                [ head EXCEPT !.word = other.word ]

\* the wild access of the unsigned Long paths
WildAccess(v) == v.m_type = "NVT_Long" /\ v.m_unsigned

\* Value v(x) for one of the typed constructors
ValueNew(i, tag, uns, x, junk) ==
    /\ ~valCrashed
    /\ x \in TypedInputs(tag, uns)
    /\ \/ /\ vals' = [vals EXCEPT ![i] = ConstructValue(tag, uns, x, junk)]
          /\ valCrashed' = FALSE
       \/ /\ tag = "NVT_Long" /\ uns
          /\ vals' = vals
          /\ valCrashed' = TRUE
    /\ valLast' = [ op |-> "new", dst |-> i, src |-> i ]
    /\ ValueFrame

\* vals[i] = vals[j]
ValueAssign(i, j, read) ==
    /\ ~valCrashed
    /\ i # j
    /\ \/ /\ vals' = [vals EXCEPT ![i] = CopyValue(vals[i], vals[j], read)]
          /\ valCrashed' = FALSE
       \/ /\ WildAccess(vals[j])
          /\ vals' = vals
          /\ valCrashed' = TRUE
    /\ valLast' = [ op |-> "assign", dst |-> i, src |-> j ]
    /\ ValueFrame

\* Value v(vals[j]): operator= on storage that holds junk
ValueCopyConstruct(i, j, junk, read) ==
    /\ ~valCrashed
    /\ i # j
    /\ \/ /\ vals' = [vals EXCEPT ![i] =
                        CopyValue([ m_type |-> "NVT_Undefined",
                                    m_unsigned |-> junk.u,
                                    word |-> junk.w,
                                    handle |-> junk.h ], vals[j], read)]
          /\ valCrashed' = FALSE
       \/ /\ WildAccess(vals[j])
          /\ vals' = vals
          /\ valCrashed' = TRUE
    /\ valLast' = [ op |-> "copy", dst |-> i, src |-> j ]
    /\ ValueFrame

ValueInit ==
    /\ vals = [ i \in ValueSlots |->
                  [ m_type |-> "NVT_Undefined", m_unsigned |-> FALSE,
                    word |-> 0, handle |-> 1 ] ]
    /\ valLast = [ op |-> "none", dst |-> 1, src |-> 1 ]
    /\ valCrashed = FALSE

ValueNext ==
    \/ \E i \in ValueSlots, tag \in ValueTags, uns \in BOOLEAN :
          \E x \in TypedInputs(tag, uns), junk \in Indeterminate :
              ValueNew(i, tag, uns, x, junk)
    \/ \E i, j \in ValueSlots, read \in WildReads :
          ValueAssign(i, j, read)
    \/ \E i, j \in ValueSlots, junk \in Indeterminate, read \in WildReads :
          ValueCopyConstruct(i, j, junk, read)

(***************************************************************************)
(* Queue (GC/Queue.hpp): the scan requests of markForScan and gcScan       *)
(***************************************************************************)
Producers == 1 .. NumProducers
QueueElems == 1 .. MaxElems

IdleEnqueue == [ pc |-> "idle", elem |-> nullptr, old |-> nullptr ]
IdleScanner == [ pc |-> "idle", queued |-> nullptr, curr |-> nullptr ]

\* the elements a walk along the next links finds from start on, as the
\* conversion to a set (lines 110-118) makes it
RECURSIVE QueueChain(_, _)
QueueChain(start, links) ==
    IF start = nullptr THEN {}
    ELSE {start} \cup QueueChain(links[start], links)

\* markForScan, enqueue (lines 61-65, 127): new QueueElement(value) and
\* first.exchange(elem)
EnqueueExchange(t) ==
    /\ enq[t].pc = "idle"
    /\ made < MaxElems
    /\ made' = made + 1
    /\ elemNext' = [elemNext EXCEPT ![made + 1] = nullptr]
    /\ scansFirst' = made + 1
    /\ enq' = [enq EXCEPT ![t] =
                 [ pc |-> "link", elem |-> made + 1, old |-> scansFirst ]]
    /\ UNCHANGED << scanner, processed, purged, queueUB >>
    /\ QueueFrame

\* line 127: elem->next = the old first
EnqueueLink(t) ==
    /\ enq[t].pc = "link"
    /\ IF enq[t].elem \in purged
       THEN /\ queueUB' = TRUE
            /\ elemNext' = elemNext
       ELSE /\ queueUB' = queueUB
            /\ elemNext' = [elemNext EXCEPT ![enq[t].elem] = enq[t].old]
    /\ enq' = [enq EXCEPT ![t] = IdleEnqueue]
    /\ UNCHANGED << scansFirst, made, scanner, processed, purged >>
    /\ QueueFrame

\* gcScan, lines 514-515, and extract, line 92: scans.extract(queued) gives
\* scans the first of the new queue and takes the old first of scans
ScanExtract ==
    /\ scanner.pc = "idle"
    /\ scansFirst' = scanner.queued
    /\ scanner' = [ pc |-> "purge", queued |-> nullptr, curr |-> scansFirst ]
    /\ UNCHANGED << elemNext, made, enq, processed, purged, queueUB >>
    /\ QueueFrame

\* purge, lines 137-144: delete the element and step to its next
ScanPurge ==
    /\ scanner.pc = "purge"
    /\ scanner.curr # nullptr
    /\ purged' = purged \cup {scanner.curr}
    /\ scanner' = [scanner EXCEPT !.curr = elemNext[scanner.curr]]
    /\ UNCHANGED << scansFirst, elemNext, made, enq, processed, queueUB >>
    /\ QueueFrame

\* gcScan, lines 516-519: the set made of queued goes to the scanners
ScanProcess ==
    /\ scanner.pc = "purge"
    /\ scanner.curr = nullptr
    /\ processed' = [e \in QueueElems |->
                       IF e \in QueueChain(scanner.queued, elemNext)
                       THEN processed[e] + 1 ELSE processed[e]]
    /\ scanner' = IdleScanner
    /\ UNCHANGED << scansFirst, elemNext, made, enq, purged, queueUB >>
    /\ QueueFrame

QueueInit ==
    /\ scansFirst = nullptr
    /\ elemNext = [e \in QueueElems |-> nullptr]
    /\ made = 0
    /\ enq = [t \in Producers |-> IdleEnqueue]
    /\ scanner = IdleScanner
    /\ processed = [e \in QueueElems |-> 0]
    /\ purged = {}
    /\ queueUB = FALSE

QueueNext ==
    \/ \E t \in Producers : EnqueueExchange(t) \/ EnqueueLink(t)
    \/ ScanExtract
    \/ ScanPurge
    \/ ScanProcess

(***************************************************************************)
(* ManagedMemoryTableRange (ManagedMemoryTable.hpp): claiming gap indexes  *)
(***************************************************************************)
Claimers == 1 .. NumClaimers
RangeIndexes == 0 .. MaxRangeEnd

IdleClaim == [ pc |-> "idle", index |-> npos, exhausted |-> FALSE ]
NoClaim == [ result |-> npos, exhausted |-> FALSE, calls |-> 0 ]

\* every index of the range has been handed out
Exhausted ==
    /\ rangeOrigin # npos
    /\ \A i \in rangeOrigin .. rangeEnd - 1 : returned[i] > 0

\* ManagedMemoryTableRange(start, end), line 84, for a gap of the table
RangeNew(start, end) ==
    /\ rangeOrigin = npos
    /\ start <= end
    /\ rangeStart' = start
    /\ rangeEnd' = end
    /\ rangeOrigin' = start
    /\ UNCHANGED << claimer, returned, claimLast, claimCalls >>
    /\ RangeFrame

\* line 87: index = start.fetch_add(1)
ClaimFetchAdd(t) ==
    /\ rangeOrigin # npos
    /\ claimer[t].pc = "idle"
    /\ claimCalls < MaxClaims
    /\ claimer' = [claimer EXCEPT ![t] =
                     [ pc |-> "l88", index |-> rangeStart,
                       exhausted |-> Exhausted ]]
    /\ rangeStart' = rangeStart + 1
    /\ claimCalls' = claimCalls + 1
    /\ UNCHANGED << rangeEnd, rangeOrigin, returned, claimLast >>
    /\ RangeFrame

\* lines 88 and 92: index < end, return index
ClaimReturn(t) ==
    /\ claimer[t].pc = "l88"
    /\ ~(claimer[t].index >= rangeEnd)
    /\ returned' = [returned EXCEPT ![claimer[t].index] = @ + 1]
    /\ claimLast' = [claimLast EXCEPT ![t] =
                       [ result |-> claimer[t].index,
                         exhausted |-> claimer[t].exhausted,
                         calls |-> @.calls + 1 ]]
    /\ claimer' = [claimer EXCEPT ![t] = IdleClaim]
    /\ UNCHANGED << rangeStart, rangeEnd, rangeOrigin, claimCalls >>
    /\ RangeFrame

\* the overshoot that leaves start where fetch_add has put it
ClaimOvershootKeepsStart(t) ==
    /\ claimer[t].pc = "l88"
    /\ claimer[t].index >= rangeEnd
    /\ rangeStart' = rangeStart
    /\ claimLast' = [claimLast EXCEPT ![t] =
                       [ result |-> npos,
                         exhausted |-> claimer[t].exhausted,
                         calls |-> @.calls + 1 ]]
    /\ claimer' = [claimer EXCEPT ![t] = IdleClaim]
    /\ UNCHANGED << rangeEnd, rangeOrigin, returned, claimCalls >>
    /\ RangeFrame

\* lines 88-91: index >= end, start.fetch_sub(1), return npos
ClaimOvershoot(t) ==
    /\ claimer[t].pc = "l88"
    /\ claimer[t].index >= rangeEnd
    /\ rangeStart' = rangeStart - 1
    /\ claimLast' = [claimLast EXCEPT ![t] =
                       [ result |-> npos,
                         exhausted |-> claimer[t].exhausted,
                         calls |-> @.calls + 1 ]]
    /\ claimer' = [claimer EXCEPT ![t] = IdleClaim]
    /\ UNCHANGED << rangeEnd, rangeOrigin, returned, claimCalls >>
    /\ RangeFrame

RangeInit ==
    /\ rangeStart = 0
    /\ rangeEnd = 0
    /\ rangeOrigin = npos
    /\ claimer = [t \in Claimers |-> IdleClaim]
    /\ returned = [i \in RangeIndexes |-> 0]
    /\ claimLast = [t \in Claimers |-> NoClaim]
    /\ claimCalls = 0

RangeNext ==
    \/ \E start, end \in RangeIndexes : RangeNew(start, end)
    \/ \E t \in Claimers :
        \/ ClaimFetchAdd(t)
        \/ ClaimReturn(t)
        \/ ClaimOvershoot(t)

vars == << semVars, tblVars, gcVars, objVars, allocVars,
          identVars, lifeVars, fakeVars, valVars, queueVars, rangeVars >>

Init ==
    /\ SemInit /\ TableInit /\ GcInit /\ ObjInit /\ AllocInit /\ IdentInit
    /\ LifeInit /\ FakeInit /\ ValueInit /\ QueueInit
    /\ RangeInit

SpecSem == Init /\ [][SemNext]_vars

\* the scheduler is fair: a thread inside a call takes its next step when
\* that step is possible again and again (a mutex that keeps becoming free
\* is acquired), and the holder of an access releases it
SemProgress(t) ==
    \/ LockSharedCheck(t) \/ LockSharedStore(t)
    \/ UnlockSharedLoad(t) \/ UnlockSharedStore(t)
    \/ TryLockSharedStore(t)
    \/ LockAcquireExclusive(t) \/ LockRequestLoad(t) \/ LockRequestStore(t)
    \/ LockCheck(t)
    \/ Unlock(t)

SpecSemFair ==
    Init /\ [][SemNext]_vars /\ \A t \in Threads : SF_vars(SemProgress(t))

SpecTable == Init /\ [][TableNext]_vars

SpecGC == Init /\ [][GcNext]_vars

SpecObj == Init /\ [][ObjNext]_vars

SpecAlloc == Init /\ [][AllocNext]_vars

SpecIdent == Init /\ [][IdentNext]_vars

SpecLife == Init /\ [][LifeNext]_vars

SpecFake == Init /\ [][FakeNext]_vars

SpecValue == Init /\ [][ValueNext]_vars

SpecQueue == Init /\ [][QueueNext]_vars

SpecRange == Init /\ [][RangeNext]_vars

(***************************************************************************)
(* Properties of the ReverseSemaphore                                      *)
(***************************************************************************)
\* C1: writer priority. From the moment a thread has called lock() (queued
\* behind another writer, waiting for the readers to drain, or holding
\* exclusive access) until it has called unlock(), no lockShared() or
\* tryLockShared() of another thread that began after it completes
\* successfully.
C1_WriterPriority ==
    [][\A r \in Threads :
          sharedHeld'[r] > sharedHeld[r] => seenWriters[r] = {}]_vars

\* C2: mutual exclusion. While a thread holds exclusive access the
\* shared-user count is 0 and no other thread holds exclusive access.
C2_MutualExclusion ==
    \A t \in Threads :
        exclusiveHeld[t] =>
            /\ numSharedUsers = 0
            /\ \A u \in Threads \ {t} : ~exclusiveHeld[u]


(***************************************************************************)
(* Properties of the garbage collector                                     *)
(***************************************************************************)
\* the roots and every object a chain of property values leads to from one
Reachable == roots \cup Traced(roots, {})

ElementSize == 4
ElementIndexes == 0 .. 1

\* C7: removal invalidates the handle: once removePointer(h) has returned
\* ok, resolving h through ManagedMemoryTable::get and through
\* ManagedMemoryPointerBase::get yields null.
C7_RemovedResolvesNull ==
    \A k \in DOMAIN issued :
        issued[k].state = "removed" =>
            /\ TableGet(rows, issued[k].h) = nullptr
            /\ PointerGet(rows, issued[k].h, 0, ElementSize) = nullptr

\* C8: uid uniqueness across slot reuse: a handle that addPointer returns at
\* the index of a removed handle h1 has a uid other than h1's, two issued
\* handles with equal (tableIndex, rowuid) denote the same allocation, and
\* the stale h1 keeps resolving to null once its row is used again.
C8_UidUniqueAcrossReuse ==
    \A j, k \in DOMAIN issued :
        (j < k /\ issued[j].h.tableIndex # npos
               /\ issued[j].h.tableIndex = issued[k].h.tableIndex) =>
            /\ issued[j].h.rowuid # issued[k].h.rowuid
            /\ issued[j].state = "removed" =>
                   PointerGet(rows, issued[j].h, 0, ElementSize) = nullptr

\* C9: replacePointer(h, newAddr) on a live handle returns ok, h then
\* resolves to newAddr + sizeof(header), the uid of h's record stays what it
\* was and no other record of the table changes.
C9_ReplaceFrame ==
    [][\A k \in DOMAIN issued :
          (/\ last'.op = "replace"
           /\ last'.h = issued[k].h
           /\ issued[k].state = "live"
           /\ issued[k].row # npos) =>
              /\ last'.ok
              /\ TableGet(rows', issued[k].h) = last'.addr + SizeofOverhead
              /\ rows'[issued[k].row] =
                     [ptr |-> last'.addr, uid |-> issued[k].h.rowuid]
              /\ \A i \in RowIndexes \ {issued[k].row} : rows'[i] = rows[i]
      ]_vars

\* C10: the handle h that addPointer(a) returns resolves through get(h) to
\* a + sizeof(header), and get(h, i) to that address plus i * elementSize,
\* for as long as h is neither replaced nor removed, whatever other handles
\* are added or removed.
C10_AddedResolves ==
    \A k \in DOMAIN issued :
        (issued[k].state = "live" /\ ~issued[k].replaced) =>
            /\ TableGet(rows, issued[k].h) = issued[k].addr + SizeofOverhead
            /\ \A i \in ElementIndexes :
                   PointerGet(rows, issued[k].h, i, ElementSize) =
                       issued[k].addr + SizeofOverhead + i * ElementSize
(***************************************************************************)
(* Properties of the Object property map                                   *)
(***************************************************************************)
\* the Value an immutable getProperty(id) through the handle yields when
\* the words outside the property array hold no identifier
ReadBack(id) == Deref(self, getPropertyConst(self, id, Junk))

\* C11: property round trip.  As long as no call has touched memory
\* outside the property array and the Object has not been recreated, a
\* value assigned through the mutable getProperty(id) is what a later
\* getProperty(id) through the same handle yields, whatever was assigned
\* to other identifiers in between.
C11_PropertyRoundTrip ==
    (~objUB /\ ~grown) =>
        \A id \in PropIds : written[id] \in PropValues =>
            ReadBack(id) = written[id]

\* identifiers a value was assigned to through the handle
WrittenIds == {id \in PropIds : written[id] \in PropValues}

\* C12: growth of the property map.  When capacity + 1 distinct nonzero
\* identifiers have been assigned through the handle of a fresh Object and
\* no call has touched memory outside a property array, every one of them
\* is readable through that handle with the value assigned to it.
C12_GrowthKeepsProperties ==
    (/\ ~objUB
     /\ written[0] = Absent
     /\ Cardinality(WrittenIds) = capacity(self) + 1) =>
        \A id \in WrittenIds : ReadBack(id) = written[id]

\* slots of the Object behind the handle that hold a property
OldProps == {i \in 0 .. self.propCount - 1 : self.first[i] # 0}

\* C13: recreateObject.  When recreateObject(obj, knownPropsCount) has
\* constructed a new Object, that Object has capacity knownPropsCount plus
\* the slack, the length of the old Object, and every property of the old
\* Object is readable from it with its value.
C13_RecreateKeepsProperties ==
    (objLast.op = "recreate" /\ ~objUB) =>
        /\ capacity(newObj) = objLast.value + PropSlack
        /\ length(newObj) = length(self)
        /\ \A i \in OldProps :
               Deref(newObj, getPropertyConst(newObj, self.first[i], Junk))
                   = self.second[i]

\* C14: the immutable getProperty.  A call for an identifier the handle
\* was never asked for through the mutable getProperty yields undefined.
C14_ConstGetUndefined ==
    (objLast.op = "getconst" /\ written[objLast.id] = Absent) =>
        objLast.value = Undefined

(***************************************************************************)
(* Properties of the allocation                                            *)
(***************************************************************************)
\* the addresses of a returned range
Range(a) == a.addr .. a.addr + a.size - 1

\* the payload of a segment: from behind its overhead to its end
Payload(k) ==
    SegmentBase(k) + SegmentOverhead .. SegmentBase(k) + segs[k].size - 1

\* C15: the byte ranges allocate_inner has returned, to whatever threads
\* and in whatever interleaving, are pairwise disjoint, and each lies
\* inside the payload of one segment.
C15_AllocationsDisjoint ==
    /\ \A a, b \in allocated : a # b => Range(a) \cap Range(b) = {}
    /\ \A a \in allocated :
           \E k \in DOMAIN segs : Range(a) \subseteq Payload(k)

(***************************************************************************)
(* Properties of the identifier registry                                   *)
(***************************************************************************)
\* the nodes of the tree, all of which are reachable from root
TreeNodes == DOMAIN nodes

\* C16: interning under concurrency.  All lookups of one name have
\* returned the same id, every lookup has returned the number of a node of
\* the tree that carries its name, and the tree holds at most one node per
\* name.
C16_InterningConsistent ==
    /\ \A a, b \in interned : a.name = b.name => a.id = b.id
    /\ \A a \in interned :
           \E n \in TreeNodes :
               nodes[n].name = a.name /\ nodes[n].number = a.id
    /\ \A n, m \in TreeNodes : nodes[n].name = nodes[m].name => n = m

(***************************************************************************)
(* Properties of init and destroy                                          *)
(***************************************************************************)
\* C17: init while initialized.  A call of init that began after an
\* earlier init had returned NoError, with no destroy in between, does not
\* get past the test of initialized and returns InvalidStateError; so
\* there is one collector thread, one pair of segments and one scanner.
C17_SecondInitRejected ==
    /\ \A t \in Clients :
           /\ life[t].wasLive => life[t].pc = "idle"
           /\ (lifeLast[t].op = "init" /\ lifeLast[t].wasLive) =>
                  lifeLast[t].result = "InvalidStateError"
    /\ ~processTerminated

\* C18: destroy.  A call of destroy returns NoError exactly when it began
\* after an init had returned NoError with no destroy since, and
\* InvalidStateError otherwise.
C18_DestroyMatchesInit ==
    \A t \in Clients :
        lifeLast[t].op = "destroy" =>
            (lifeLast[t].result = "NoError" <=> lifeLast[t].wasLive)

(***************************************************************************)
(* Properties of replacePointer and removePointer on foreign handles       *)
(***************************************************************************)
\* the record a handle denotes carries another uid than the handle, or the
\* handle denotes no record of the table
UidMismatch(h) ==
    \/ get_internal(h.tableIndex) = npos
    \/ rows[get_internal(h.tableIndex)].uid # h.rowuid

WriterPresent(t) ==
    \E w \in Threads \ {t} : pc[w] \in LockPcs \/ exclusiveHeld[w]

\* C20: tryLockShared() returns false only when a writer holds or has
\* requested exclusive access: in every state in which a call of
\* tryLockShared() by a thread can return false, another thread is inside
\* lock() or holds exclusive access, whatever the readers are doing.
C20_TryLockSharedFailsOnlyForWriter ==
    \A t \in Threads : ENABLED TryLockSharedFail(t) => WriterPresent(t)

(***************************************************************************)
(* Properties of tryLock                                                   *)
(***************************************************************************)
\* C21: tryLock() returns true only when no thread holds shared or
\* exclusive access, and a tryLock() that returns false leaves every field
\* of the semaphore, both mutexes included, as it found it.
C21_TryLockLeavesNoTrace ==
    [][\A t \in Threads :
          /\ TryLockSuccess(t) =>
                 \A u \in Threads : sharedHeld[u] = 0 /\ ~exclusiveHeld[u]
          /\ (\/ TryLockFailSync(t)
              \/ TryLockFailExclusive(t)
              \/ TryLockFailShared(t)) =>
                 UNCHANGED << numSharedUsers, isExclusiveRequested,
                              syncMutex, exclusiveMutex >>
      ]_vars

(***************************************************************************)
(* Properties of hasExclusiveUsers and hasSharedUsers                      *)
(***************************************************************************)
\* C22: hasExclusiveUsers() is true in exactly the states in which a
\* writer holds exclusive access or is queued for it, also while earlier
\* readers are still draining; once every acquisition is released,
\* hasExclusiveUsers() and hasSharedUsers() are both false.
C22_HasExclusiveUsersExact ==
    /\ hasExclusiveUsers <=> (RegisteredWriters # {})
    /\ (\A t \in Threads :
            pc[t] = "idle" /\ sharedHeld[t] = 0 /\ ~exclusiveHeld[t]) =>
           (~hasExclusiveUsers /\ ~hasSharedUsers)

(***************************************************************************)
(* Properties of reallocate                                                *)
(***************************************************************************)
\* C23: reallocate(h, elementSize, count, autoCopy = true) on a live handle
\* returns ok and leaves h as it was, while h resolves to another region
\* whose first min(oldBytes, newBytes) payload cells hold the old payload;
\* values written through h afterwards are read back through h.
C23_ReallocateKeepsPayload ==
    /\ (fakeLast.op = "reallocate" /\ fakeLast.autocopy) =>
           /\ ~fakeUB
           /\ FakeHandle(fakeLast.k) = fakeLast.h
           /\ FakeResolve(fakeRecords, fakeLast.h) \notin
                  {nullptr, fakeLast.oldAddr}
           /\ \A i \in 0 .. fakeLast.oldBytes - 1 :
                  i < fakeLast.bytes =>
                      mainBuffer[FakeResolve(fakeRecords, fakeLast.h) + i]
                          = fakeLast.oldPayload[i]
    /\ fakeLast.op = "write" =>
           \A i \in 0 .. shapes[fakeLast.k] - 1 :
               mainBuffer[FakeResolve(fakeRecords,
                                      FakeHandle(fakeLast.k)) + i]
                   = fakeLast.v + i

(***************************************************************************)
(* Properties of the comparison of handles                                 *)
(***************************************************************************)
\* C24: two handles compare equal iff their tableIndex and their rowuid
\* are both equal; a stale handle and the handle issued later for the same
\* table index compare unequal.
C24_EqualityComparesBothFields ==
    \A a, b \in Handles :
        PointerEquals(a, b) <=>
            (a.tableIndex = b.tableIndex /\ a.rowuid = b.rowuid)


\* C25: every addPointer call returns a handle with a valid tableIndex
\* (never npos), two handles that are live at the same time never share a
\* table index, and no call claims a record that a live handle occupies.
\* The calls of the model run one after the other, which is one of the
\* interleavings the property quantifies over.
C25_AddPointerExclusive ==
    /\ \A k \in DOMAIN issued : issued[k].h.tableIndex # npos
    /\ \A j, k \in DOMAIN issued :
           (j # k /\ issued[j].state = "live" /\ issued[k].state = "live") =>
               /\ issued[j].h.tableIndex # issued[k].h.tableIndex
               /\ issued[j].row # issued[k].row


C29_OneSlotPerIdentifier ==
    /\ \A id \in PropIds \ {FreeSlot} :
           Cardinality({i \in 0 .. self.propCount - 1 :
                           self.first[i] = id}) <= 1
    /\ \A id \in PropIds : Cardinality(given[id]) <= 1
    /\ \A a, b \in PropIds : a # b => given[a] \cap given[b] = {}


\* C30: every slot index a property lookup reads or writes lies in
\* [0, capacity): for a call of either getProperty variant, each of the 8
\* rotated positions the loop reaches before it finds the identifier, and
\* the index the linear scan starts with when none of them holds it.
C30_LookupIndexInBounds ==
    [][\A id \in PropIds :
          (/\ objLast'.op \in {"set", "get", "getconst"}
           /\ objLast'.id = id
           /\ calls' = calls + 1) =>
              /\ \A i \in 0 .. 7 :
                     (\A j \in 0 .. i - 1 :
                         \/ ProbeIndex[id, capacity(self), j] = OutOfProps
                         \/ self.first[ProbeIndex[id, capacity(self), j]] # id)
                     => ProbeIndex[id, capacity(self), i]
                            \in 0 .. capacity(self) - 1
              /\ (\A i \in 0 .. 7 :
                     /\ ProbeIndex[id, capacity(self), i] # OutOfProps
                     /\ self.first[ProbeIndex[id, capacity(self), i]] # id)
                     => (id % capacity(self)) + 1 \in 0 .. capacity(self) - 1
      ]_vars


\* C31: a slot claimed for an identifier, the first one lookup issues
\* included, is counted by length(): as long as the Object has not been
\* recreated and no call has left the property array, length() equals the
\* number of distinct identifiers the mutable getProperty was called for.
C31_LengthCountsIdentifiers ==
    (self # NoObj /\ ~grown /\ ~objUB) =>
        length(self) = Cardinality({id \in PropIds : written[id] # Absent})


\* C32: a loop from begin() to end() over an Object visits every occupied
\* slot of the property array and no empty one, and no operator++ of the
\* loop reads a slot at an index >= capacity().
C32_IterationVisitsOccupied ==
    self # NoObj =>
        /\ Visited(self, 0) =
               {i \in 0 .. capacity(self) - 1 : self.first[i] # FreeSlot}
        /\ \A i \in Visited(self, 0) :
               IncrementReads(self, i) \subseteq 0 .. capacity(self) - 1


\* C33: distinct names never receive the same identifier: two lookups
\* that have returned the same number were lookups of the same name, for
\* every interleaving of the lookups.
C33_DistinctNamesDistinctIds ==
    \A a, b \in interned :
        (a.id # Thrown /\ a.id = b.id) => a.name = b.name

\* two names have an identifier each, the second of them after the number
\* its lookup fetched first was given up at the contended root
C33_Witness ==
    /\ nextNumber >= 3
    /\ \E a, b \in interned :
          /\ a.name # b.name
          /\ a.id # Thrown /\ b.id # Thrown
          /\ a.id # b.id


C35_DestroyStopsCollector ==
    [][\A t \in Clients :
          (/\ lifeLast'[t] # lifeLast[t]
           /\ lifeLast'[t].op = "destroy"
           /\ lifeLast'[t].wasLive) => gcThreads' = 0
      ]_vars


\* C36: appending segments to a chain never steps through a null segment,
\* and every segment whose appendSegment has returned is reached exactly
\* once from the head of the chain through the next members: a path leads
\* from the head to it, no two segments have the same successor and none
\* has the head as its successor.
C36_AppendKeepsChain ==
    /\ ~allocCrashed
    /\ \A k \in DOMAIN segs :
           (\A t \in Allocators :
               alloc[t].pc = "append" => alloc[t].segment # k) =>
               \E n \in 1 .. Len(segs) :
                   \E path \in [1 .. n -> DOMAIN segs] :
                       /\ path[1] = 1 /\ path[n] = k
                       /\ \A i \in 1 .. n - 1 :
                              segs[path[i]].next = path[i + 1]
    /\ \A j, k \in DOMAIN segs :
           /\ segs[k].next # 1
           /\ (j # k /\ segs[j].next # NoSegment) =>
                  segs[j].next # segs[k].next

(***************************************************************************)
(* Properties of Value                                                     *)
(***************************************************************************)
\* what a Value of its tag holds: nothing for Undefined, the handle of a
\* managed object, the pointer of a native object, the number otherwise
ValuePayload(v) ==
    CASE v.m_type = "NVT_Undefined" -> 0
      [] v.m_type = "NVT_Object" -> v.handle
      [] OTHER -> v.word

\* the last step has copied vals[valLast.src] into vals[valLast.dst]
Copied == valLast.op \in { "assign", "copy" } /\ ~valCrashed

\* C37: after a Value has been copy-assigned or copy-constructed from
\* another Value it has the tag, the signedness and the payload of its
\* source, whatever it held before: the same number, the same handle of a
\* managed object, the same pointer of a native object.
C37_CopyKeepsValue ==
    Copied =>
        /\ vals[valLast.dst].m_type = vals[valLast.src].m_type
        /\ vals[valLast.dst].m_unsigned = vals[valLast.src].m_unsigned
        /\ ValuePayload(vals[valLast.dst]) = ValuePayload(vals[valLast.src])

\* pc values of a thread that is inside lockShared()
LockSharedPcs == {"ls23", "ls24w", "ls24r", "ls25"}

\* a step that begins an exclusive acquisition: lock() or tryLock()
ExclusiveCall ==
    \E t \in Threads :
        \/ LockCall(t)
        \/ TryLockFailSync(t) \/ TryLockFailExclusive(t)
        \/ TryLockFailShared(t) \/ TryLockSuccess(t)

\* C38: no deadlock and no lost wake-up. Under a fair scheduler, with every
\* acquired access released again, a run that makes only finitely many
\* exclusive calls lets every pending lock() return with exclusive access
\* and every pending lockShared() return.
C38_PendingLocksReturn ==
    <>[][~ExclusiveCall]_vars =>
        \A t \in Threads :
            /\ (pc[t] \in LockPcs) ~> (pc[t] = "idle" /\ exclusiveHeld[t])
            /\ (pc[t] \in LockSharedPcs) ~> (pc[t] = "idle")

(***************************************************************************)
(* Properties of the scan-request Queue                                    *)
(***************************************************************************)
\* the links of the queue once every enqueue under way has written its
\* next pointer
LinksWhenWritten ==
    [e \in QueueElems |->
        IF \E t \in Producers : enq[t].pc = "link" /\ enq[t].elem = e
        THEN enq[CHOOSE t \in Producers :
                     enq[t].pc = "link" /\ enq[t].elem = e].old
        ELSE elemNext[e]]

\* the elements that wait in the queue for the next extract
Waiting == QueueChain(scansFirst, LinksWhenWritten)

\* the elements of the batch the collector has taken and not yet handed on
InBatch ==
    IF scanner.pc = "idle" THEN {}
    ELSE QueueChain(scanner.queued, LinksWhenWritten)

\* C39: whatever way enqueue calls and an extract interleave, an element
\* that has been enqueued has been processed in exactly one batch, is part
\* of the batch at hand, or waits in the queue for the next extract: none is
\* lost, none is processed twice, none is cut off from its batch.
C39_EveryRequestProcessedOnce ==
    \A e \in 1 .. made :
        \/ processed[e] = 1 /\ e \notin Waiting /\ e \notin InBatch
        \/ processed[e] = 0 /\ (e \in Waiting) # (e \in InBatch)

(***************************************************************************)
(* Properties of ManagedMemoryTableRange                                   *)
(***************************************************************************)
\* C40: however many threads call claim() on a gap range at once, no index
\* is returned twice and every index returned lies in the [start, end) the
\* range was made with; a call made after the range was exhausted returns
\* npos; and with the range exhausted and no call in flight the start counter
\* equals end.
C40_ClaimHandsOutEachIndexOnce ==
    /\ \A i \in RangeIndexes :
          /\ returned[i] <= 1
          /\ returned[i] > 0 => (rangeOrigin <= i /\ i < rangeEnd)
    /\ \A t \in Claimers :
          (claimLast[t].calls > 0 /\ claimLast[t].exhausted) =>
              claimLast[t].result = npos
    /\ (Exhausted /\ \A t \in Claimers : claimer[t].pc = "idle") =>
          rangeStart = rangeEnd

\* two overshooting calls were in flight on an exhausted range of at least
\* two indexes, and both have returned
C40_Witness ==
    /\ Exhausted
    /\ rangeEnd - rangeOrigin >= 2
    /\ \A t \in Claimers : claimer[t].pc = "idle"
    /\ Cardinality({t \in Claimers :
                      claimLast[t].calls > 0 /\ claimLast[t].result = npos
                      /\ claimLast[t].exhausted}) >= 1
    /\ Cardinality({t \in Claimers :
                      claimLast[t].calls > 0 /\ claimLast[t].result = npos})
          >= 2

=============================================================================
